---- MODULE Spec2Model ----
(***************************************************************************)
(* A model of hypothesis.extra.ghostwriter: the helpers that turn          *)
(* callables into the source text of a property-based test.  Every         *)
(* operation of the module is a pure function; an action of the model      *)
(* draws the inputs of one operation from a bounded set and applies it,    *)
(* recording the inputs and the result in the state.                       *)
(***************************************************************************)
EXTENDS Naturals, Sequences, FiniteSets, TLC

VARIABLES
    pc,                 \* "idle" before an operation ran, then the operation's name
    except_,            \* the validated exception tuple given to the reducer
    uniques,            \* the reducer's list of surviving types
    prev_uniques,       \* the survivors of the previous reduction (for a re-run)
    param,              \* the inspect.Parameter given to _strategy_for
    strategy,           \* the strategy _strategy_for returned
    func,               \* the callable given to _get_params or _write_call
    params,             \* what _get_params(func) returned, or the error it raised
    pass_variables,     \* the variable names given to _write_call
    call,               \* what _write_call returned, or the error it raised
    funcs,              \* the callables given to _get_strategies
    pass_result_to_next_func,   \* its keyword argument
    kwargs_order,       \* the order in which builds() hands back the keyword strategies
    given_strategies,   \* what _get_strategies returned, or the error it raised
    request,            \* the arguments of a call of fuzz or magic
    result,             \* what that call returned, or the error it raised
    first_call          \* the first of several calls: its arguments and its outcome

reduceVars == <<except_, uniques, prev_uniques>>
strategyVars == <<param, strategy>>
callVars == <<func, params, pass_variables, call>>
mergeVars == <<funcs, pass_result_to_next_func, kwargs_order, given_strategies>>
requestVars == <<request, result, first_call>>
vars == <<pc, reduceVars, strategyVars, callVars, mergeVars, requestVars>>

(***************************************************************************)
(* Bounds of the model.                                                    *)
(***************************************************************************)
MaxExcept == 3          \* longest exception tuple drawn
MaxParams == 2          \* longest generated parameter list
MaxFuncs == 3           \* most callables given to _get_strategies
MaxThings == 2          \* most arguments given to magic
MaxNin == 27            \* most inputs of a generated universal function

(***************************************************************************)
(* Generic helpers over sequences (Python lists and tuples).               *)
(***************************************************************************)
InSeq(x, s) == \E i \in 1..Len(s) : s[i] = x

SeqSet(s) == {s[i] : i \in 1..Len(s)}

FirstIndex(x, s) == CHOOSE i \in 1..Len(s) : s[i] = x /\ \A j \in 1..(i - 1) : s[j] # x

\* list.remove(x): drop the first occurrence of x
ListRemove(s, x) ==
    LET i == FirstIndex(x, s)
    IN  SubSeq(s, 1, i - 1) \o SubSeq(s, i + 1, Len(s))

TuplesUpTo(S, n) == UNION {[1..k -> S] : k \in 0..n}

(***************************************************************************)
(* Exception types: a small class hierarchy with builtin types, library    *)
(* types, a user type named like a builtin and a type with two bases.      *)
(***************************************************************************)
ExcTypes == {"Exception", "ValueError", "OSError", "json.JSONDecodeError",
             "pkg.ValueError", "pkg.Both"}

Bases ==
    [t \in ExcTypes |->
        CASE t = "Exception"            -> {}
          [] t = "ValueError"           -> {"Exception"}
          [] t = "OSError"              -> {"Exception"}
          [] t = "json.JSONDecodeError" -> {"ValueError"}
          [] t = "pkg.ValueError"       -> {"Exception"}
          [] t = "pkg.Both"             -> {"OSError", "ValueError"}]

RECURSIVE issubclass(_, _)
issubclass(a, b) == a = b \/ \E c \in Bases[a] : issubclass(c, b)

\* itertools.permutations(range(n), 2): the index pairs (i, j), i # j, in
\* lexicographic order
permutations2(n) ==
    [k \in 1..(n * (n - 1)) |->
        LET i == ((k - 1) \div (n - 1)) + 1
            r == ((k - 1) % (n - 1)) + 1
        IN  <<i, IF r < i THEN r ELSE r + 1>>]

\* A slip of the loop body: the superclass is removed instead of the subclass.
ReduceStepRemovesSuper(u, a, b) ==
    IF InSeq(a, u) /\ issubclass(a, b) /\ InSeq(b, u) THEN ListRemove(u, b) ELSE u

\* the body of the loop: if a in uniques and issubclass(a, b): uniques.remove(a)
ReduceStep(u, a, b) ==
    IF InSeq(a, u) /\ issubclass(a, b) THEN ListRemove(u, a) ELSE u

RECURSIVE ReduceLoop(_, _, _)
ReduceLoop(exc, u, k) ==
    LET pairs == permutations2(Len(exc))
    IN  IF k > Len(pairs) THEN u
        ELSE ReduceLoop(exc, ReduceStep(u, exc[pairs[k][1]], exc[pairs[k][2]]), k + 1)

\* uniques = list(except_); for a, b in permutations(except_, 2): ...
ReduceExceptions(exc) == ReduceLoop(exc, exc, 1)

ExceptTuples == TuplesUpTo(ExcTypes, MaxExcept)

\* ex.__module__
ExcModule ==
    [t \in ExcTypes |->
        CASE t = "json.JSONDecodeError" -> "json"
          [] t \in {"pkg.ValueError", "pkg.Both"} -> "pkg"
          [] OTHER -> "builtins"]

\* ex.__qualname__
ExcQualname ==
    [t \in ExcTypes |->
        CASE t = "json.JSONDecodeError" -> "JSONDecodeError"
          [] t = "pkg.ValueError" -> "ValueError"
          [] t = "pkg.Both" -> "Both"
          [] OTHER -> t]

\* dir(builtins), as far as the names of the model go
BuiltinNames ==
    {"Exception", "ValueError", "OSError", "KeyboardInterrupt", "sorted"}

(***************************************************************************)
(* Text helpers (Python str).                                              *)
(***************************************************************************)
\* sub in s
Contains(s, sub) ==
    \E i \in 1..(Len(s) + 1 - Len(sub)) : SubSeq(s, i, i + Len(sub) - 1) = sub

RECURSIVE Join(_, _)
Join(parts, sep) ==
    IF Len(parts) = 0 THEN ""
    ELSE IF Len(parts) = 1 THEN parts[1]
    ELSE parts[1] \o sep \o Join(Tail(parts), sep)

\* s.find(sub), counted from 1: the first position at which sub occurs in
\* s, or 0
Find(s, sub) ==
    LET at == {i \in 1..(Len(s) + 1 - Len(sub)) : SubSeq(s, i, i + Len(sub) - 1) = sub}
    IN  IF at = {} THEN 0 ELSE CHOOSE i \in at : \A j \in at : i <= j

RECURSIVE StrReplace(_, _, _)
\* s.replace(old, new): the occurrences are replaced from left to right
StrReplace(s, old, new) ==
    IF Find(s, old) = 0 THEN s
    ELSE LET i == Find(s, old)
         IN  SubSeq(s, 1, i - 1) \o new
                \o StrReplace(SubSeq(s, i + Len(old), Len(s)), old, new)

RECURSIVE StrCount(_, _)
\* s.count(sub): the occurrences that do not overlap, from left to right
StrCount(s, sub) ==
    IF Find(s, sub) = 0 THEN 0
    ELSE 1 + StrCount(SubSeq(s, Find(s, sub) + Len(sub), Len(s)), sub)

StartsWith(s, prefix) == Len(s) >= Len(prefix) /\ SubSeq(s, 1, Len(prefix)) = prefix

EndsWith(s, suffix) ==
    Len(s) >= Len(suffix) /\ SubSeq(s, Len(s) + 1 - Len(suffix), Len(s)) = suffix

(***************************************************************************)
(* Source text.  A text is the sequence of pieces text.split("\n") gives:  *)
(* "a\nb\n" is <<"a", "b", "">>, and a text of one piece has no newline.    *)
(***************************************************************************)
Newline == <<"", "">>

\* a + b
Concat(a, b) ==
    SubSeq(a, 1, Len(a) - 1) \o <<a[Len(a)] \o b[1]>> \o Tail(b)

RECURSIVE ConcatAll(_)
\* "".join(texts)
ConcatAll(texts) ==
    IF Len(texts) = 0 THEN <<"">> ELSE Concat(texts[1], ConcatAll(Tail(texts)))

\* not line.strip()
IsBlank(line) == \A i \in 1..Len(line) : SubSeq(line, i, i) = " "

\* textwrap.indent(text, prefix): lines of whitespace only are left alone
indent(text, prefix) ==
    [i \in 1..Len(text) |-> IF IsBlank(text[i]) THEN text[i] ELSE prefix \o text[i]]

\* text.replace(old, new) for an old without newline
TextReplace(text, old, new) == [i \in 1..Len(text) |-> StrReplace(text[i], old, new)]

RECURSIVE TextCount(_, _)
\* text.count(sub) for a sub without newline
TextCount(text, sub) ==
    IF Len(text) = 0 THEN 0 ELSE StrCount(text[1], sub) + TextCount(Tail(text), sub)

\* (line + "\n") in text: line ends a piece that a newline follows
ContainsLineEnd(text, line) ==
    \E i \in 1..(Len(text) - 1) : EndsWith(text[i], line)

(***************************************************************************)
(* Strategies.  A strategy is an opaque value of the strategies library    *)
(* with a repr; a union keeps the strategies it was built from.            *)
(***************************************************************************)
Atom(t) == [kind |-> "atom", text |-> t, members |-> <<>>]

OneOfStrategy(ms) == [kind |-> "one_of", text |-> "one_of", members |-> ms]

\* a | b
Or(a, b) == OneOfStrategy(<<a, b>>)

\* st.one_of(list): a single strategy is returned as it is
one_of(ms) == IF Len(ms) = 1 THEN ms[1] ELSE OneOfStrategy(ms)

RECURSIVE element_strategies(_)
RECURSIVE FlattenAll(_)
\* OneOfStrategy.element_strategies: the branches of a union, unions among
\* them replaced by their own branches
element_strategies(s) ==
    IF s.kind = "one_of" THEN FlattenAll(s.members) ELSE <<s>>
FlattenAll(ms) ==
    IF Len(ms) = 0 THEN <<>>
    ELSE element_strategies(ms[1]) \o FlattenAll(Tail(ms))

RECURSIVE Repr(_)
RECURSIVE ReprAll(_)
\* repr(strategy)
Repr(s) ==
    IF s.kind = "one_of" THEN "one_of(" \o Join(ReprAll(s.members), ", ") \o ")"
    ELSE s.text
ReprAll(ms) ==
    IF Len(ms) = 0 THEN <<>> ELSE <<Repr(ms[1])>> \o ReprAll(Tail(ms))

infer == Atom("infer")

(***************************************************************************)
(* Parameters (inspect.Parameter).                                         *)
(***************************************************************************)
VarKinds == {"VAR_POSITIONAL", "VAR_KEYWORD"}
NonVarKinds == {"POSITIONAL_ONLY", "POSITIONAL_OR_KEYWORD", "KEYWORD_ONLY"}

\* inspect.Parameter.empty, as a default
NoDefault == [kind |-> "empty", type |-> "", value |-> ""]

Defaults ==
    { NoDefault,
      [kind |-> "bool",  type |-> "bool",     value |-> "False"],
      [kind |-> "enum",  type |-> "Color",    value |-> "Color.RED"],
      [kind |-> "other", type |-> "NoneType", value |-> "None"],
      [kind |-> "other", type |-> "int",      value |-> "0"],
      [kind |-> "other", type |-> "object",   value |-> "<object object at 0x7f>"] }

\* "empty" is inspect.Parameter.empty
Annotations == {"empty", "int", "Union[int, str]", "Optional[Real]"}

ParamNames ==
    {"string", "String", "substring", "as_string", "name", "Name", "filename",
     "fname", "index", "Index", "start_index", "real", "imag", "function",
     "func", "f", "iterable", "iterables", "x", "a", "b", "key"}

_GUESS_STRATEGIES_BY_NAME ==
    << [strategy |-> Atom("text()"), names |-> <<"name", "filename", "fname">>],
       [strategy |-> Atom("integers(min_value=0)"), names |-> <<"index">>],
       [strategy |-> Atom("floats()"), names |-> <<"real", "imag">>],
       [strategy |-> Atom("functions()"), names |-> <<"function", "func", "f">>],
       [strategy |-> Or(Atom("iterables(integers())"), Atom("iterables(text())")),
        names |-> <<"iterable">>] >>

UpperCase == "ABCDEFGHIJKLMNOPQRSTUVWXYZ"
LowerCase == "abcdefghijklmnopqrstuvwxyz"

RECURSIVE Lower(_)
\* str.lower()
Lower(s) ==
    IF Len(s) = 0 THEN ""
    ELSE LET c == SubSeq(s, 1, 1)
             up == {i \in 1..Len(UpperCase) : SubSeq(UpperCase, i, i) = c}
         IN  (IF up = {} THEN c
              ELSE LET i == CHOOSE i \in up : TRUE IN SubSeq(LowerCase, i, i))
             \o Lower(SubSeq(s, 2, Len(s)))

RECURSIVE TableLookup(_, _)
\* for strategy, names in _GUESS_STRATEGIES_BY_NAME: if param.name in names
TableLookup(name, e) ==
    IF e > Len(_GUESS_STRATEGIES_BY_NAME) THEN Atom("nothing()")
    ELSE IF InSeq(name, _GUESS_STRATEGIES_BY_NAME[e].names)
         THEN _GUESS_STRATEGIES_BY_NAME[e].strategy
         ELSE TableLookup(name, e + 1)

RECURSIVE SubstringLookup(_, _)
SubstringLookup(name, e) ==
    IF e > Len(_GUESS_STRATEGIES_BY_NAME) THEN Atom("nothing()")
    ELSE IF \E i \in 1..Len(_GUESS_STRATEGIES_BY_NAME[e].names) :
                Contains(name, _GUESS_STRATEGIES_BY_NAME[e].names[i])
         THEN _GUESS_STRATEGIES_BY_NAME[e].strategy
         ELSE SubstringLookup(name, e + 1)

\* A slip of the name heuristic: keys match anywhere in the lower-cased name.
GuessByNameLoosely(name) ==
    IF Contains(Lower(name), "string") /\ ~Contains(Lower(name), "as")
    THEN Atom("text()")
    ELSE SubstringLookup(Lower(name), 1)

\* the guesses of _strategy_for for a parameter with no annotation and no default
GuessByName(name) ==
    IF Contains(name, "string") /\ ~Contains(name, "as")
    THEN Atom("text()")
    ELSE TableLookup(name, 1)

\* A slip of the rule order: the name is looked at before the default value.
StrategyForNameFirst(p) ==
    IF p.annotation # "empty" THEN infer
    ELSE IF GuessByName(p.name) # Atom("nothing()") THEN GuessByName(p.name)
    ELSE IF p.default.kind = "bool" THEN Atom("booleans()")
    ELSE IF p.default.kind = "enum" THEN Atom("sampled_from(" \o p.default.type \o ")")
    ELSE IF p.default.kind # "empty" THEN Atom("just(" \o p.default.value \o ")")
    ELSE Atom("nothing()")

_strategy_for(p) ==
    IF p.annotation # "empty" THEN infer
    ELSE IF p.default.kind = "bool" THEN Atom("booleans()")
    ELSE IF p.default.kind = "enum" THEN Atom("sampled_from(" \o p.default.type \o ")")
    ELSE IF p.default.kind # "empty" THEN Atom("just(" \o p.default.value \o ")")
    ELSE GuessByName(p.name)

Parameter(name, kind, annotation, default) ==
    [name |-> name, kind |-> kind, annotation |-> annotation, default |-> default]

\* the parameters _strategy_for is applied to: variadic ones never reach it
StrategyParams ==
    [name : ParamNames, kind : {"POSITIONAL_OR_KEYWORD", "KEYWORD_ONLY"},
     annotation : Annotations, default : Defaults]

(***************************************************************************)
(* Callables.  A callable is described by what introspection finds on it:  *)
(* __qualname__, __module__ ("" when the attribute is missing), the outcome *)
(* of inspect.signature ("ok" or the exception raised), the parameters of  *)
(* its signature, and the attributes of a universal function.              *)
(***************************************************************************)
Callable(qualname, module, sig, declared, ufunc, nin, ufunc_home) ==
    [qualname |-> qualname, module |-> module, sig |-> sig, declared |-> declared,
     ufunc |-> ufunc, nin |-> nin, ufunc_home |-> ufunc_home]

Function(qualname, module, declared) ==
    Callable(qualname, module, "ok", declared, FALSE, 0, "")

P(name, kind, annotation, default) == Parameter(name, kind, annotation, default)

DefaultNone == [kind |-> "other", type |-> "NoneType", value |-> "None"]
DefaultZero == [kind |-> "other", type |-> "int",      value |-> "0"]
DefaultFalse == [kind |-> "bool", type |-> "bool",     value |-> "False"]
DefaultObject ==
    [kind |-> "other", type |-> "object", value |-> "<object object at 0x7f>"]

\* builtins.sorted(iterable, /, *, key=None, reverse=False)
Sorted ==
    Function("sorted", "builtins",
        << P("iterable", "POSITIONAL_ONLY", "empty", NoDefault),
           P("key", "KEYWORD_ONLY", "empty", DefaultNone),
           P("reverse", "KEYWORD_ONLY", "empty", DefaultFalse) >>)

\* def divide(a: int, b: int) -> float, defined in a script
Divide ==
    Function("divide", "__main__",
        << P("a", "POSITIONAL_OR_KEYWORD", "int", NoDefault),
           P("b", "POSITIONAL_OR_KEYWORD", "int", NoDefault) >>)

\* operator.add(a, b, /)
OperatorAdd ==
    Function("add", "operator",
        << P("a", "POSITIONAL_ONLY", "empty", NoDefault),
           P("b", "POSITIONAL_ONLY", "empty", NoDefault) >>)

\* numpy.add: a universal function, which inspect.signature rejects
NumpyAdd == Callable("add", "", "ValueError", <<>>, TRUE, 2, "numpy")

\* an extension function without a signature that is no universal function
Opaque == Callable("opaque", "ext", "ValueError", <<>>, FALSE, 0, "")

\* def fmt(string, *args, index=0, **kwargs), nested in another function
Fmt ==
    Function("outer.<locals>.fmt", "pkg",
        << P("string", "POSITIONAL_OR_KEYWORD", "empty", NoDefault),
           P("args", "VAR_POSITIONAL", "empty", NoDefault),
           P("index", "KEYWORD_ONLY", "empty", DefaultZero),
           P("kwargs", "VAR_KEYWORD", "empty", NoDefault) >>)

\* def now(): no parameters
Now == Function("now", "pkg", <<>>)

\* def take(iterable=None, index: Union[int, str] = 0, b: Optional[Real] = None)
Take ==
    Function("take", "pkg",
        << P("iterable", "POSITIONAL_OR_KEYWORD", "empty", DefaultNone),
           P("index", "POSITIONAL_OR_KEYWORD", "Union[int, str]", DefaultZero),
           P("b", "POSITIONAL_OR_KEYWORD", "Optional[Real]", DefaultNone) >>)

\* a callable whose __signature__ attribute is no Signature: inspect.signature
\* raises TypeError
Broken == Callable("broken", "pkg", "TypeError", <<>>, FALSE, 0, "")

\* re.compile(pattern, flags=0)
Compile ==
    Function("compile", "re",
        << P("pattern", "POSITIONAL_OR_KEYWORD", "empty", NoDefault),
           P("flags", "POSITIONAL_OR_KEYWORD", "empty", DefaultZero) >>)

\* def wait(timeout=_UNSET), the default being a plain object()
Wait ==
    Function("wait", "pkg",
        << P("timeout", "POSITIONAL_OR_KEYWORD", "empty", DefaultObject) >>)

\* def run(x), defined in a file my-module.py that was loaded by path
Dashed ==
    Function("run", "my-module",
        << P("x", "POSITIONAL_OR_KEYWORD", "empty", NoDefault) >>)

Catalogue ==
    {Sorted, Divide, OperatorAdd, NumpyAdd, Opaque, Fmt, Now, Take, Broken,
     Compile, Wait, Dashed}

AllKinds == NonVarKinds \cup VarKinds

ascii_lowercase == LowerCase

Letter(i) == SubSeq(ascii_lowercase, i, i)

\* def f(...) with one parameter of each listed kind, named a, b, c, ...
GeneratedCallables ==
    { Function("f", "pkg", [i \in 1..Len(kinds) |->
                                P(Letter(i), kinds[i], "empty", NoDefault)]) :
        kinds \in TuplesUpTo(AllKinds, MaxParams) }

\* universal functions of 0, 1, 2, ... inputs, as numpy.frompyfunc makes
\* them: inspect.signature raises ValueError for them
Ufuncs ==
    { Callable("vectorized", "", "ValueError", <<>>, TRUE, n, "numpy") : n \in 0..MaxNin }

Callables == Catalogue \cup GeneratedCallables \cup Ufuncs

\* the callables whose strategies are merged
MergeCallables == {Sorted, Divide, Take, Fmt, Now, Opaque}

Min(a, b) == IF a < b THEN a ELSE b

Max(a, b) == IF a < b THEN b ELSE a

\* the result of an operation that returned v, and of one that raised e
Ok(v) == [status |-> "ok", error |-> "", value |-> v]
Raised(e, v) == [status |-> "error", error |-> e, value |-> v]

_is_probably_ufunc(obj) == obj.ufunc

\* A slip of the filter: only *args is excluded, **kwargs is kept.
GetParamsKeepsVarKeyword(f) ==
    LET IsNamed(q) == q.kind # "VAR_POSITIONAL"
    IN  IF f.sig = "ok" THEN Ok(SelectSeq(f.declared, IsNamed))
        ELSE IF ~_is_probably_ufunc(f) THEN Raised(f.sig, <<>>)
        ELSE Ok([i \in 1..Min(f.nin, Len(ascii_lowercase)) |->
                    P(Letter(i), "POSITIONAL_ONLY", "empty", NoDefault)])

\* _get_params(func): the non-variadic parameters in declaration order, or
\* the exception of inspect.signature when func is no universal function
_get_params(f) ==
    LET NotVar(q) == q.kind \notin VarKinds
        synthesized == [i \in 1..Min(f.nin, Len(ascii_lowercase)) |->
                            P(Letter(i), "POSITIONAL_ONLY", "empty", NoDefault)]
    IN  IF f.sig = "ok" THEN Ok(SelectSeq(f.declared, NotVar))
        ELSE IF ~_is_probably_ufunc(f) THEN Raised(f.sig, <<>>)
        ELSE Ok(SelectSeq(synthesized, NotVar))

RECURSIVE Replace(_, _, _)
\* str.replace(old, new) for a one-character old
Replace(s, old, new) ==
    IF Len(s) = 0 THEN ""
    ELSE (IF SubSeq(s, 1, 1) = old THEN new ELSE SubSeq(s, 1, 1))
         \o Replace(SubSeq(s, 2, Len(s)), old, new)

LOOK_FOR_UFUNCS_IN_MODULES == <<"numpy", "astropy", "erfa", "dask", "numba">>

\* _get_module(obj)
_get_module(obj) ==
    IF obj.module # "" THEN Ok(obj.module)
    ELSE IF ~_is_probably_ufunc(obj) THEN Raised("AttributeError", "")
    ELSE IF InSeq(obj.ufunc_home, LOOK_FOR_UFUNCS_IN_MODULES) THEN Ok(obj.ufunc_home)
    ELSE Raised("RuntimeError", "")

\* _get_qualname(obj)
_get_qualname(obj) == Replace(Replace(obj.qualname, "<", "_"), ">", "_")

\* _get_qualname(obj, include_module=True)
QualnameWithModule(obj) ==
    IF _get_module(obj).status = "ok"
    THEN Ok(_get_module(obj).value \o "." \o _get_qualname(obj))
    ELSE _get_module(obj)

\* None, the fill value of zip_longest
PyNone == "<None>"

Falsy(v) == v = "" \/ v = PyNone

\* A slip of the argument rule: every parameter is passed by keyword.
RenderArgAlwaysKeyword(v, q) ==
    q.name \o "=" \o (IF Falsy(v) THEN q.name ELSE v)

\* one argument of _write_call: (v or p.name) for a positional-only
\* parameter, f"{p.name}={v or p.name}" for any other
RenderArg(v, q) ==
    IF q.kind = "POSITIONAL_ONLY"
    THEN (IF Falsy(v) THEN q.name ELSE v)
    ELSE q.name \o "=" \o (IF Falsy(v) THEN q.name ELSE v)

\* _write_call(func, *pass_variables)
_write_call(f, vs) ==
    LET ps == _get_params(f)
        args == [i \in 1..Len(ps.value) |->
                    RenderArg(IF i <= Len(vs) THEN vs[i] ELSE PyNone, ps.value[i])]
        qn == QualnameWithModule(f)
    IN  IF ps.status # "ok" THEN Raised(ps.error, [args |-> <<>>, text |-> ""])
        ELSE IF Len(vs) > Len(ps.value)
             THEN Raised("AttributeError", [args |-> <<>>, text |-> ""])
        ELSE IF qn.status # "ok" THEN Raised(qn.error, [args |-> <<>>, text |-> ""])
        ELSE Ok([args |-> args,
                 text |-> qn.value \o "(" \o Join(args, ", ") \o ")"])

PassVariables == TuplesUpTo({"", "u", "v"}, MaxParams + 1)

(***************************************************************************)
(* The strategy merger.  An ordered dict is a sequence of items            *)
(* [k |-> key, v |-> value] with distinct keys, in insertion order.        *)
(***************************************************************************)
AsciiOrder == "-.0123456789ABCDEFGHIJKLMNOPQRSTUVWXYZ_abcdefghijklmnopqrstuvwxyz"

\* the rank of a character in code point order
Code(c) == CHOOSE i \in 1..Len(AsciiOrder) : SubSeq(AsciiOrder, i, i) = c

RECURSIVE StrLess(_, _)
\* a < b on str: lexicographic by code point
StrLess(a, b) ==
    IF Len(b) = 0 THEN FALSE
    ELSE IF Len(a) = 0 THEN TRUE
    ELSE LET ca == Code(SubSeq(a, 1, 1))
             cb == Code(SubSeq(b, 1, 1))
         IN  IF ca # cb THEN ca < cb
             ELSE StrLess(SubSeq(a, 2, Len(a)), SubSeq(b, 2, Len(b)))

Keys(d) == [i \in 1..Len(d) |-> d[i].k]

HasKey(d, k) == \E i \in 1..Len(d) : d[i].k = k

Get(d, k) == d[CHOOSE i \in 1..Len(d) : d[i].k = k].v

\* d[k] = v: a new key is appended, an old key keeps its place
Set(d, k, v) ==
    IF HasKey(d, k)
    THEN [i \in 1..Len(d) |-> IF d[i].k = k THEN [k |-> k, v |-> v] ELSE d[i]]
    ELSE Append(d, [k |-> k, v |-> v])

RECURSIVE SortedItems(_)
\* sorted(d.items()): ascending by key
SortedItems(d) ==
    IF Len(d) = 0 THEN <<>>
    ELSE LET m == CHOOSE i \in 1..Len(d) :
                    \A j \in 1..Len(d) : j # i => StrLess(d[i].k, d[j].k)
         IN  <<d[m]>> \o SortedItems(SubSeq(d, 1, m - 1) \o SubSeq(d, m + 1, Len(d)))

Reversed(d) == [i \in 1..Len(d) |-> d[Len(d) + 1 - i]]

\* from_type(annotation), the strategy builds() puts in the place of infer
FromType(annotation) ==
    CASE annotation = "int" -> Atom("integers()")
      [] annotation = "Union[int, str]" ->
            OneOfStrategy(<<Atom("integers()"), Atom("text()")>>)
      [] annotation = "Optional[Real]" ->
            OneOfStrategy(<<Atom("none()"),
                            OneOfStrategy(<<Atom("fractions()"), Atom("floats()")>>)>>)

KwargsOrders == {"declared", "sorted", "reversed"}

\* the order of one request: the keys of a plain dict are kept sorted
BuildsOrder == "sorted"

\* st.builds(f, **builder_args): the keyword strategies with infer resolved,
\* in the order the library keeps them
Builds(ps, order) ==
    LET resolved == [i \in 1..Len(ps) |->
                        [k |-> ps[i].name,
                         v |-> IF _strategy_for(ps[i]) = infer
                               THEN FromType(ps[i].annotation)
                               ELSE _strategy_for(ps[i])]]
    IN  CASE order = "declared" -> resolved
          [] order = "sorted"   -> SortedItems(resolved)
          [] order = "reversed" -> Reversed(resolved)

\* A slip of the pipeline rule: the first parameter of every callable is dropped.
DropFirstOfAll(ps, pipeline, i) ==
    IF pipeline
    THEN (IF Len(ps) = 0 THEN Raised("StopIteration", ps) ELSE Ok(Tail(ps)))
    ELSE Ok(ps)

\* if pass_result_to_next_func and i >= 1: del params[next(iter(params))]
\* (i counts from 0)
DropFirst(ps, pipeline, i) ==
    IF pipeline /\ i >= 1
    THEN (IF Len(ps) = 0 THEN Raised("StopIteration", ps) ELSE Ok(Tail(ps)))
    ELSE Ok(ps)

\* the body of the loop over the keyword strategies of one callable
MergeEntry(given, k, v0) ==
    LET v == IF v0.kind = "one_of" THEN one_of(element_strategies(v0)) ELSE v0
        old == IF HasKey(given, k) THEN Get(given, k) ELSE v
    IN  IF Repr(old) # Repr(v)
        THEN Set(given, k, Or(Get(given, k), v))
        ELSE Set(given, k, v)

RECURSIVE MergeKwargs(_, _)
MergeKwargs(given, kwargs) ==
    IF Len(kwargs) = 0 THEN given
    ELSE MergeKwargs(MergeEntry(given, kwargs[1].k, kwargs[1].v), Tail(kwargs))

RECURSIVE MergeLoop(_, _, _, _, _)
\* for i, f in enumerate(funcs): ...
MergeLoop(fs, pipeline, order, given, i) ==
    IF i >= Len(fs) THEN Ok(given)
    ELSE LET ps == _get_params(fs[i + 1])
             kept == DropFirst(ps.value, pipeline, i)
         IN  IF ps.status # "ok" THEN Raised(ps.error, <<>>)
             ELSE IF kept.status # "ok" THEN Raised(kept.error, <<>>)
             ELSE MergeLoop(fs, pipeline, order,
                            MergeKwargs(given, Builds(kept.value, order)), i + 1)

\* A slip of the ordering: the merged dict is returned in insertion order.
OrderGivenAsInserted(fs, given) == given

\* if len(funcs) == 1: the order of that function's signature; otherwise
\* alphabetical order
OrderGiven(fs, given) ==
    IF Len(fs) = 1
    THEN LET ps == _get_params(fs[Len(fs)]).value
         IN  [i \in 1..Len(ps) |-> [k |-> ps[i].name, v |-> Get(given, ps[i].name)]]
    ELSE SortedItems(given)

\* _get_strategies(*funcs, pass_result_to_next_func)
_get_strategies(fs, pipeline, order) ==
    LET merged == MergeLoop(fs, pipeline, order, <<>>, 0)
        \* given_strategies[name] for a name that was never inserted
        missing == /\ Len(fs) = 1
                   /\ \E i \in 1..Len(_get_params(fs[1]).value) :
                        ~HasKey(merged.value, _get_params(fs[1]).value[i].name)
    IN  IF merged.status # "ok" THEN merged
        ELSE IF missing THEN Raised("KeyError", <<>>)
        ELSE Ok(OrderGiven(fs, merged.value))

(***************************************************************************)
(* The public entry points.  An argument of magic is a callable, a module  *)
(* or some other object; a module has attributes and perhaps __all__.      *)
(***************************************************************************)
CallableThing(f) ==
    [kind |-> "callable", obj |-> f, has_all |-> FALSE, all |-> <<>>, members |-> <<>>]

\* an object that is neither callable nor a module
ObjectThing ==
    [kind |-> "object", obj |-> Now, has_all |-> FALSE, all |-> <<>>, members |-> <<>>]

Module(has_all, all, members) ==
    [kind |-> "module", obj |-> Now, has_all |-> has_all, all |-> all,
     members |-> members]

Member(name, value) == [name |-> name, value |-> value]

\* a module without __all__
ModA ==
    Module(FALSE, <<>>,
        << Member("divide", CallableThing(Divide)),
           Member("opaque", CallableThing(Opaque)),
           Member("_take", CallableThing(Take)),
           Member("VERSION", ObjectThing),
           Member("now", CallableThing(Now)),
           Member("add", CallableThing(NumpyAdd)) >>)

\* a module whose __all__ lists two of its attributes
ModB ==
    Module(TRUE, <<"take", "broken">>,
        << Member("take", CallableThing(Take)),
           Member("broken", CallableThing(Broken)),
           Member("fmt", CallableThing(Fmt)) >>)

\* a module whose __all__ lists a constant and a function
ModC ==
    Module(TRUE, <<"VERSION", "fmt">>,
        << Member("VERSION", ObjectThing),
           Member("fmt", CallableThing(Fmt)),
           Member("opaque", CallableThing(Opaque)) >>)

Things ==
    {CallableThing(f) : f \in Catalogue} \cup {ObjectThing, ModA, ModB, ModC}

\* the arguments of magic: callables, an object that is neither a callable nor
\* a module, and modules
MagicThings ==
    {CallableThing(Divide), CallableThing(Opaque), CallableThing(OperatorAdd),
     CallableThing(NumpyAdd), CallableThing(Dashed), ObjectThing, ModA, ModB, ModC}

\* the values of except_: a single object, or a tuple of objects
ExceptArg(is_tuple, items) == [is_tuple |-> is_tuple, items |-> items]

ExceptArgs ==
    { ExceptArg(TRUE, <<>>),
      ExceptArg(FALSE, <<"ValueError">>),
      ExceptArg(TRUE, <<"Exception", "OSError">>),
      ExceptArg(TRUE, <<"ValueError", "ValueError">>),
      ExceptArg(TRUE, <<"OSError", "json.JSONDecodeError">>),
      ExceptArg(FALSE, <<"pkg.ValueError">>),
      ExceptArg(FALSE, <<"KeyboardInterrupt">>),
      ExceptArg(TRUE, <<"ValueError", "KeyboardInterrupt">>) }

Styles == {"pytest", "unittest", "nose"}

\* isinstance(e, type) and issubclass(e, Exception)
IsExceptionType(e) == e \in ExcTypes

\* _check_except(except_)
_check_except(e) ==
    IF e.is_tuple
    THEN (IF \E i \in 1..Len(e.items) : ~IsExceptionType(e.items[i])
          THEN Raised("InvalidArgument", <<>>)
          ELSE Ok(e.items))
    ELSE (IF ~IsExceptionType(e.items[1])
          THEN Raised("InvalidArgument", <<>>)
          ELSE Ok(<<e.items[1]>>))

\* _check_style(style)
_check_style(style) ==
    IF style \notin {"pytest", "unittest"} THEN Raised("InvalidArgument", "")
    ELSE Ok("")

\* the names of st.__all__ that occur in the reprs of the model, in the
\* order of st.__all__
StrategyNames ==
    << "booleans", "floats", "fractions", "functions", "integers", "iterables",
       "just", "none", "nothing", "one_of", "sampled_from", "text" >>

\* compile(r, "<string>", "eval") raises SyntaxError: among the reprs of the
\* model, those of an object without a literal form, such as <object ...>
SyntaxError(r) == Contains(r, "<")

\* _valid_syntax_repr(strategy)
_valid_syntax_repr(v) ==
    IF v = Atom("text()") THEN "text()"
    ELSE LET r == StrReplace(Repr(v), ".filter(_can_hash)", "")
         IN  IF SyntaxError(r) THEN "nothing()" ELSE r

RECURSIVE PrefixStrategies(_, _)
\* for name in st.__all__: given_args = given_args.replace(f"{name}(", f"st.{name}(")
PrefixStrategies(given_args, i) ==
    IF i > Len(StrategyNames) THEN given_args
    ELSE PrefixStrategies(
            StrReplace(given_args, StrategyNames[i] \o "(", "st." \o StrategyNames[i] \o "("),
            i + 1)

\* ", ".join("{}={}".format(k, _valid_syntax_repr(v)) for k, v in ...), then
\* the st. prefixes
GivenArgs(given) ==
    PrefixStrategies(
        Join([i \in 1..Len(given) |->
                given[i].k \o "=" \o _valid_syntax_repr(given[i].v)], ", "), 1)

RECURSIVE TitleFrom(_, _)
\* a letter that follows a letter is put in lower case, any other letter in
\* upper case
TitleFrom(s, after_cased) ==
    IF Len(s) = 0 THEN ""
    ELSE LET c == SubSeq(s, 1, 1)
             low == Find(LowerCase, c)
             upper == IF low = 0 THEN c ELSE SubSeq(UpperCase, low, low)
             cased == Contains(LowerCase, c) \/ Contains(UpperCase, c)
         IN  (IF after_cased THEN Lower(c) ELSE upper)
                \o TitleFrom(SubSeq(s, 2, Len(s)), cased)

\* str.title()
Title(s) == TitleFrom(s, FALSE)

\* the strings of the surviving exceptions and the modules they add to imports
ExceptionName(ex) ==
    IF ExcQualname[ex] \in BuiltinNames THEN ExcQualname[ex]
    ELSE ExcModule[ex] \o "." \o Replace(Replace(ExcQualname[ex], "<", "_"), ">", "_")

ExceptionImports(uniq) ==
    {ExcModule[uniq[i]] : i \in {i \in 1..Len(uniq) : ExcQualname[uniq[i]] \notin BuiltinNames}}

\* A slip of the condition: the tuple form is written for any number of
\* exceptions.
ExceptClauseAlwaysTuple(exceptions) == "(" \o Join(exceptions, ", ") \o ")"

\* "(" + ", ".join(exceptions) + ")" if len(exceptions) > 1 else exceptions[0]
ExceptClause(exceptions) ==
    IF Len(exceptions) > 1 THEN "(" \o Join(exceptions, ", ") \o ")"
    ELSE exceptions[1]

\* SUPPRESS_BLOCK.format(test_body=indent(test_body, prefix="    "), exceptions=...)
SUPPRESS_BLOCK(test_body, exceptions) ==
    Concat(<<"try:", "">>,
        Concat(indent(test_body, "    "),
            <<"", "except " \o exceptions \o ":", "    reject()", "">>))

\* A slip of the parameter list: the receiver is written in every style.
TemplateAlwaysSelf(given_args, test_kind, func_name, arg_names, test_body) ==
    Concat(<<"", "@given(" \o given_args \o ")",
             "def test_" \o test_kind \o "_" \o func_name \o "("
                \o (IF StartsWith(arg_names, "self") THEN arg_names
                    ELSE IF arg_names = "" THEN "self" ELSE "self, " \o arg_names)
                \o "):", "">>,
        Concat(test_body, Newline))

\* TEMPLATE.format(given_args=..., test_kind=..., func_name=..., arg_names=..., test_body=...)
TEMPLATE(given_args, test_kind, func_name, arg_names, test_body) ==
    Concat(<<"", "@given(" \o given_args \o ")",
             "def test_" \o test_kind \o "_" \o func_name \o "(" \o arg_names \o "):", "">>,
        Concat(test_body, Newline))

\* _make_test_body(f, ghost="fuzz", test_body=..., except_=..., style=...) for
\* one callable: the imports and the body it returns, with the parts they are
\* made of
_make_test_body(f, test_body, exc, style, order) ==
    LET Compose(gs, mod, reduced) ==
            LET given_args == GivenArgs(gs.value)
                exceptions == [i \in 1..Len(reduced) |-> ExceptionName(reduced[i])]
                wrapped == IF Len(exc) > 0
                           THEN SUPPRESS_BLOCK(<<test_body>>, ExceptClause(exceptions))
                           ELSE <<test_body>>
                argnames == (IF style = "unittest" THEN <<"self">> ELSE <<>>)
                                \o Keys(gs.value)
                body == TEMPLATE(given_args, "fuzz",
                                 StrReplace(_get_qualname(f), ".", "_"),
                                 Join(argnames, ", "), indent(wrapped, "    "))
                class == "class Test" \o Title("fuzz")
                            \o Title(StrReplace(_get_qualname(f), ".", ""))
                            \o "(unittest.TestCase):"
            IN  IF gs.status # "ok" THEN Raised(gs.error, <<>>)
                ELSE IF mod.status # "ok" THEN Raised(mod.error, <<>>)
                ELSE IF Len(exc) > 0 /\ Len(reduced) = 0 THEN Raised("IndexError", <<>>)
                ELSE Ok([func |-> f, name |-> _get_qualname(f), given |-> gs.value,
                         given_args |-> given_args, argnames |-> argnames,
                         test_body |-> wrapped, module |-> mod.value,
                         suppress |-> Len(exc) > 0, uniques |-> reduced,
                         exceptions |-> exceptions, style |-> style,
                         imports |-> {mod.value}
                                        \cup (IF Len(exc) > 0 THEN ExceptionImports(reduced)
                                              ELSE {})
                                        \cup (IF style = "unittest" THEN {"unittest"}
                                              ELSE {}),
                         body |-> IF style = "unittest"
                                  THEN Concat(<<class, "">>, indent(body, "    "))
                                  ELSE body])
    IN  Compose(_get_strategies(<<f>>, FALSE, order), _get_module(f),
                IF Len(exc) > 0 THEN ReduceExceptions(exc) ELSE <<>>)

\* A slip of the call: the first parameter is bound to a variable the test
\* does not have.
FuzzUnitPassesResult(f, exc, style, order) ==
    LET c == _write_call(f, <<"result">>)
    IN  IF c.status # "ok" THEN Raised(c.error, <<>>)
        ELSE _make_test_body(f, c.value.text, exc, style, order)

\* _make_test_body(f, test_body=_write_call(f), ...): the argument is
\* evaluated first
FuzzUnit(f, exc, style, order) ==
    LET c == _write_call(f, <<>>)
    IN  IF c.status # "ok" THEN Raised(c.error, <<>>)
        ELSE _make_test_body(f, c.value.text, exc, style, order)

(***************************************************************************)
(* The formatter, black.format_str(src, mode=black.FileMode()): it rejects *)
(* a source that does not parse and lays out the blank lines between the   *)
(* statements of one that does.  The splitting of long lines is left out.  *)
(***************************************************************************)
\* an import statement whose module name is no dotted name
InvalidImport(line) ==
    LET name_chars == ".0123456789ABCDEFGHIJKLMNOPQRSTUVWXYZ_abcdefghijklmnopqrstuvwxyz"
    IN  /\ StartsWith(line, "import ")
        /\ \/ Len(line) = Len("import ")
           \/ \E i \in (Len("import ") + 1)..Len(line) :
                    ~Contains(name_chars, SubSeq(line, i, i))

RECURSIVE LeadingSpaces(_)
LeadingSpaces(line) ==
    IF Len(line) > 0 /\ SubSeq(line, 1, 1) = " "
    THEN 1 + LeadingSpaces(SubSeq(line, 2, Len(line)))
    ELSE 0

Depth(line) == LeadingSpaces(line) \div 4

Stripped(line) == SubSeq(line, LeadingSpaces(line) + 1, Len(line))

\* the statement of the line opens with the word
Opens(line, word) == StartsWith(Stripped(line), word)

\* the parser rejects the source: an import of no dotted name, or a decorator
\* whose arguments do not compile
InvalidInput(text) ==
    \E i \in 1..Len(text) :
        \/ InvalidImport(text[i])
        \/ Opens(text[i], "@given(") /\ SyntaxError(text[i])

\* the blank lines put before the line cur that follows the line prev, when
\* the source has `before` blank lines between them
EmptyLines(prev, cur, before) ==
    LET allowed == Min(before, IF Depth(cur) = 0 THEN 2 ELSE 1)
        IsDecorator(line) == Opens(line, "@")
        IsDef(line) == Opens(line, "def ")
        IsClass(line) == Opens(line, "class ")
        IsImport(line) == Opens(line, "import ") \/ Opens(line, "from ")
    IN  IF IsDecorator(cur) \/ IsDef(cur) \/ IsClass(cur)
        THEN IF IsDecorator(prev) THEN 0
             ELSE IF Depth(prev) < Depth(cur) /\ (IsClass(prev) \/ IsDef(prev)) THEN 0
             ELSE IF Depth(cur) = 0 THEN 2 ELSE 1
        ELSE IF IsImport(prev) /\ ~IsImport(cur) /\ Depth(prev) = Depth(cur)
             THEN Max(allowed, 1)
        ELSE allowed

RECURSIVE FormatFrom(_, _, _, _, _)
\* the lines from text[i] on; out holds the lines laid out so far
FormatFrom(text, i, out, before, first) ==
    IF i > Len(text) THEN out
    ELSE IF IsBlank(text[i]) THEN FormatFrom(text, i + 1, out, before + 1, first)
    ELSE LET n == IF first THEN 0 ELSE EmptyLines(out[Len(out)], text[i], before)
         IN  FormatFrom(text, i + 1, out \o [j \in 1..n |-> ""] \o <<text[i]>>, 0, FALSE)

\* black.format_str: the formatted source, or black.InvalidInput
Format(text) ==
    IF InvalidInput(text) THEN Raised("InvalidInput", <<>>)
    ELSE Ok(FormatFrom(text, 1, <<>>, 0, TRUE) \o <<"">>)

RECURSIVE SortedNames(_)
\* the keys of by_name in ascending order
SortedNames(names) ==
    IF names = {} THEN <<>>
    ELSE LET m == CHOOSE n \in names : \A o \in names : o # n => StrLess(n, o)
         IN  <<m>> \o SortedNames(names \ {m})

\* "".join(f"import {imp}\n" for imp in sorted(imports))
ImportLines(imports) ==
    ConcatAll([i \in 1..Cardinality(imports) |->
                <<"import " \o SortedNames(imports)[i], "">>])

\* IMPORT_SECTION.format(imports=..., reject=...); the backquotes of the
\* first comment line are written as quotes
IMPORT_SECTION(imports, reject) ==
    Concat(<<"",
             "# This test code was written by the 'hypothesis.extra.ghostwriter' module",
             "# and is provided under the Creative Commons Zero public domain dedication.",
             "", "">>,
        Concat(imports,
            <<"from hypothesis import given, " \o reject \o "strategies as st", "">>))

\* A slip of the first test: reject is imported whatever the body holds.
AssembleAlwaysImportsReject(imports, raw_body) ==
    LET body == TextReplace(TextReplace(raw_body, "builtins.", ""), "__main__.", "")
        header == IMPORT_SECTION(ImportLines(imports \ {"builtins", "__main__"}), "reject, ")
        nothings == TextCount(body, "=st.nothing()")
        todo == IF nothings = 1
                THEN <<"# TODO: replace st.nothing() with an appropriate strategy", "", "">>
                ELSE IF nothings >= 1
                THEN <<"# TODO: replace st.nothing() with appropriate strategies", "", "">>
                ELSE <<"">>
    IN  Concat(Concat(header, todo), body)

\* A slip of the second test: the advisory is never put in the plural.
AssembleAlwaysSingular(imports, raw_body) ==
    LET body == TextReplace(TextReplace(raw_body, "builtins.", ""), "__main__.", "")
        header == IMPORT_SECTION(
                    ImportLines(imports \ {"builtins", "__main__"}),
                    IF ContainsLineEnd(body, "        reject()") THEN "reject, " ELSE "")
        nothings == TextCount(body, "=st.nothing()")
        todo == IF nothings >= 1
                THEN <<"# TODO: replace st.nothing() with an appropriate strategy", "", "">>
                ELSE <<"">>
    IN  Concat(Concat(header, todo), body)

\* the text handed to the formatter
Assemble(imports, raw_body) ==
    LET body == TextReplace(TextReplace(raw_body, "builtins.", ""), "__main__.", "")
        header == IMPORT_SECTION(
                    ImportLines(imports \ {"builtins", "__main__"}),
                    IF ContainsLineEnd(body, "        reject()") THEN "reject, " ELSE "")
        nothings == TextCount(body, "=st.nothing()")
        todo == IF nothings = 1
                THEN <<"# TODO: replace st.nothing() with an appropriate strategy", "", "">>
                ELSE IF nothings >= 1
                THEN <<"# TODO: replace st.nothing() with appropriate strategies", "", "">>
                ELSE <<"">>
    IN  Concat(Concat(header, todo), body)

\* A slip of the last line: the assembled text is returned as it is.
MakeTestSkipsFormatter(imports, body) == Ok(Assemble(imports, body))

\* A slip of the last line: the assembled text is returned when the
\* formatter rejects it.
MakeTestSwallowsInvalidInput(imports, body) ==
    IF Format(Assemble(imports, body)).status = "ok"
    THEN Format(Assemble(imports, body))
    ELSE Ok(Assemble(imports, body))

\* _make_test(imports, body)
_make_test(imports, body) == Format(Assemble(imports, body))

\* a call that returned a source text, with the units the text is made of
Written(units, text) == [status |-> "ok", error |-> "", value |-> units, text |-> text]

\* fuzz(func, except_=..., style=...)
fuzz(thing, e, style, order) ==
    IF thing.kind # "callable" THEN Raised("InvalidArgument", <<>>)
    ELSE IF _check_except(e).status # "ok" THEN Raised("InvalidArgument", <<>>)
    ELSE IF _check_style(style).status # "ok" THEN Raised("InvalidArgument", <<>>)
    ELSE LET Return(unit) ==
                 LET text == _make_test(unit.value.imports, unit.value.body)
                 IN  IF unit.status # "ok" THEN unit
                     ELSE IF text.status # "ok" THEN Raised(text.error, <<>>)
                     ELSE Written(<<unit.value>>, text.value)
         IN  Return(FuzzUnit(thing.obj, _check_except(e).value, style, order))

\* getattr(thing, name)
GetAttr(mod, name) ==
    IF \E i \in 1..Len(mod.members) : mod.members[i].name = name
    THEN Ok(mod.members[CHOOSE i \in 1..Len(mod.members) : mod.members[i].name = name].value)
    ELSE Raised("AttributeError", ObjectThing)

\* the candidate members of a module: those of __all__ when it has one,
\* else the callable attributes whose name does not start with "_"
ModuleFuncs(mod) ==
    IF mod.has_all
    THEN [i \in 1..Len(mod.all) |-> GetAttr(mod, mod.all[i])]
    ELSE LET Public(m) == m.value.kind = "callable" /\ SubSeq(m.name, 1, 1) # "_"
             public == SelectSeq(mod.members, Public)
         IN  [i \in 1..Len(public) |-> Ok(public[i].value)]

\* A slip of the handler: every exception of inspect.signature is swallowed.
MemberOutcomeSwallowsAll(t) ==
    IF t.kind # "callable" THEN "skip"
    ELSE IF t.obj.sig # "ok" THEN "skip"
    ELSE IF Len(t.obj.declared) > 0 THEN "add"
    ELSE "skip"

\* try: if callable(f) and inspect.signature(f).parameters: functions.add(f)
\* except ValueError: pass
MemberOutcome(t) ==
    IF t.kind # "callable" THEN "skip"
    ELSE IF t.obj.sig = "ValueError" THEN "skip"
    ELSE IF t.obj.sig # "ok" THEN t.obj.sig
    ELSE IF Len(t.obj.declared) > 0 THEN "add"
    ELSE "skip"

RECURSIVE AddMembers(_, _)
\* the loop over the candidate members of one module
AddMembers(found, fs) ==
    IF Len(fs) = 0 THEN Ok(found)
    ELSE IF fs[1].status # "ok" THEN Raised(fs[1].error, found)
    ELSE LET o == MemberOutcome(fs[1].value)
         IN  IF o = "add" THEN AddMembers(found \cup {fs[1].value.obj}, Tail(fs))
             ELSE IF o = "skip" THEN AddMembers(found, Tail(fs))
             ELSE Raised(o, found)

RECURSIVE DiscoverSkipsOthers(_, _)
\* A slip of the loop: an argument that is neither callable nor a module is
\* passed over.
DiscoverSkipsOthers(found, things) ==
    IF Len(things) = 0 THEN Ok(found)
    ELSE LET t == things[1]
         IN  IF t.kind = "callable"
             THEN DiscoverSkipsOthers(found \cup {t.obj}, Tail(things))
             ELSE IF t.kind = "module"
             THEN LET fs == ModuleFuncs(t)
                      bad == {i \in 1..Len(fs) : fs[i].status # "ok"}
                      added == AddMembers(found, fs)
                  IN  IF bad # {} THEN Raised("AttributeError", found)
                      ELSE IF added.status # "ok" THEN added
                      ELSE DiscoverSkipsOthers(added.value, Tail(things))
             ELSE DiscoverSkipsOthers(found, Tail(things))

RECURSIVE Discover(_, _)
\* for thing in modules_or_functions: ...
Discover(found, things) ==
    IF Len(things) = 0 THEN Ok(found)
    ELSE LET t == things[1]
         IN  IF t.kind = "callable" THEN Discover(found \cup {t.obj}, Tail(things))
             ELSE IF t.kind = "module"
             THEN LET fs == ModuleFuncs(t)
                      \* the list comprehension over __all__ runs before the loop
                      bad == {i \in 1..Len(fs) : fs[i].status # "ok"}
                      added == AddMembers(found, fs)
                  IN  IF bad # {} THEN Raised("AttributeError", found)
                      ELSE IF added.status # "ok" THEN added
                      ELSE Discover(added.value, Tail(things))
             ELSE Raised("InvalidArgument", found)

RECURSIVE MagicUnits(_, _, _, _, _)
\* for _, f in sorted(by_name.items()): ...
MagicUnits(fs, exc, style, order, done) ==
    IF Len(fs) = 0 THEN Ok(done)
    ELSE LET Then(unit) ==
                 IF unit.status # "ok" THEN Raised(unit.error, <<>>)
                 ELSE MagicUnits(Tail(fs), exc, style, order, Append(done, unit.value))
         IN  Then(FuzzUnit(fs[1], exc, style, order))

RECURSIVE JoinParts(_)
\* "\n".join(parts)
JoinParts(units) ==
    IF Len(units) = 0 THEN <<"">>
    ELSE IF Len(units) = 1 THEN units[1].body
    ELSE Concat(units[1].body, Concat(Newline, JoinParts(Tail(units))))

\* return _make_test(imports, "\n".join(parts))
MagicReturn(units) ==
    LET text == _make_test(UNION {units.value[i].imports : i \in 1..Len(units.value)},
                           JoinParts(units.value))
    IN  IF units.status # "ok" THEN units
        ELSE IF text.status # "ok" THEN Raised(text.error, <<>>)
        ELSE Written(units.value, text.value)

\* A slip of the name check: callables that share a name silently replace
\* one another in by_name.
MagicKeepsOneOfEachName(things, e, style, order) ==
    IF _check_except(e).status # "ok" THEN Raised("InvalidArgument", <<>>)
    ELSE IF _check_style(style).status # "ok" THEN Raised("InvalidArgument", <<>>)
    ELSE IF Len(things) = 0 THEN Raised("InvalidArgument", <<>>)
    ELSE LET functions == Discover({}, things)
             names == {_get_qualname(f) : f \in functions.value}
             by_name == [n \in names |->
                            CHOOSE f \in functions.value : _get_qualname(f) = n]
             ordered == [i \in 1..Len(SortedNames(names)) |-> by_name[SortedNames(names)[i]]]
         IN  IF functions.status # "ok" THEN Raised(functions.error, <<>>)
             ELSE MagicReturn(MagicUnits(ordered, _check_except(e).value, style, order, <<>>))

RECURSIVE FirstOccurrences(_, _)
\* the callables given directly, each once, in the order of the arguments
FirstOccurrences(things, seen) ==
    IF Len(things) = 0 THEN <<>>
    ELSE IF things[1].kind = "callable" /\ things[1].obj \notin seen
    THEN <<things[1].obj>> \o FirstOccurrences(Tail(things), seen \cup {things[1].obj})
    ELSE FirstOccurrences(Tail(things), seen)

\* A slip of the loop: the tests of the callables given directly are written
\* in the order of the arguments, those of module members after them.
MagicInArgumentOrder(things, e, style, order) ==
    IF _check_except(e).status # "ok" THEN Raised("InvalidArgument", <<>>)
    ELSE IF _check_style(style).status # "ok" THEN Raised("InvalidArgument", <<>>)
    ELSE IF Len(things) = 0 THEN Raised("InvalidArgument", <<>>)
    ELSE LET functions == Discover({}, things)
             names == {_get_qualname(f) : f \in functions.value}
             direct == FirstOccurrences(things, {})
             others == {_get_qualname(f) : f \in functions.value \ SeqSet(direct)}
             by_name == [n \in others |->
                            CHOOSE f \in functions.value \ SeqSet(direct) :
                                _get_qualname(f) = n]
             ordered == direct \o [i \in 1..Len(SortedNames(others)) |->
                                        by_name[SortedNames(others)[i]]]
         IN  IF functions.status # "ok" THEN Raised(functions.error, <<>>)
             ELSE IF Cardinality(names) < Cardinality(functions.value)
                  THEN Raised("InvalidArgument", <<>>)
             ELSE MagicReturn(MagicUnits(ordered, _check_except(e).value, style, order, <<>>))

\* magic(*modules_or_functions, except_=..., style=...)
magic(things, e, style, order) ==
    IF _check_except(e).status # "ok" THEN Raised("InvalidArgument", <<>>)
    ELSE IF _check_style(style).status # "ok" THEN Raised("InvalidArgument", <<>>)
    ELSE IF Len(things) = 0 THEN Raised("InvalidArgument", <<>>)
    ELSE LET functions == Discover({}, things)
             names == {_get_qualname(f) : f \in functions.value}
             by_name == [n \in names |->
                            CHOOSE f \in functions.value : _get_qualname(f) = n]
             ordered == [i \in 1..Len(SortedNames(names)) |-> by_name[SortedNames(names)[i]]]
         IN  IF functions.status # "ok" THEN Raised(functions.error, <<>>)
             ELSE IF Cardinality(names) < Cardinality(functions.value)
                  THEN Raised("InvalidArgument", <<>>)
             ELSE MagicReturn(MagicUnits(ordered, _check_except(e).value, style, order, <<>>))

(***************************************************************************)
(* Initial state and actions.                                              *)
(***************************************************************************)
\* no call was made
NoCall == [request |-> [op |-> "", things |-> <<>>, except_ |-> ExceptArg(TRUE, <<>>),
                        style |-> "pytest"],
           result |-> Ok(<<>>)]

Init ==
    /\ pc = "idle"
    /\ except_ = <<>>
    /\ uniques = <<>>
    /\ prev_uniques = <<>>
    /\ param = Parameter("", "POSITIONAL_OR_KEYWORD", "empty", NoDefault)
    /\ strategy = Atom("")
    /\ func = Now
    /\ params = Ok(<<>>)
    /\ pass_variables = <<>>
    /\ call = Ok([args |-> <<>>, text |-> ""])
    /\ funcs = <<>>
    /\ pass_result_to_next_func = FALSE
    /\ kwargs_order = "declared"
    /\ given_strategies = Ok(<<>>)
    /\ request = [op |-> "", things |-> <<>>, except_ |-> ExceptArg(TRUE, <<>>),
                  style |-> "pytest"]
    /\ result = Ok(<<>>)
    /\ first_call = NoCall

\* _make_test_body, `if except_:` branch: the reducer runs on a non-empty tuple
Reduce ==
    /\ pc = "idle"
    /\ \E t \in ExceptTuples :
        /\ Len(t) > 0
        /\ except_' = t
        /\ uniques' = ReduceExceptions(t)
    /\ pc' = "reduced"
    /\ UNCHANGED <<prev_uniques, strategyVars, callVars, mergeVars, requestVars>>

\* The survivors are given to the reducer again.
ReduceAgain ==
    /\ pc = "reduced"
    /\ Len(uniques) > 0
    /\ prev_uniques' = uniques
    /\ uniques' = ReduceExceptions(uniques)
    /\ pc' = "rereduced"
    /\ UNCHANGED <<except_, strategyVars, callVars, mergeVars, requestVars>>

\* _strategy_for(param)
StrategyFor ==
    /\ pc = "idle"
    /\ \E p \in StrategyParams :
        /\ param' = p
        /\ strategy' = _strategy_for(p)
    /\ pc' = "strategy_for"
    /\ UNCHANGED <<reduceVars, callVars, mergeVars, requestVars>>

\* _get_params(func)
GetParams ==
    /\ pc = "idle"
    /\ \E f \in Callables :
        /\ func' = f
        /\ params' = _get_params(f)
    /\ pc' = "get_params"
    /\ UNCHANGED <<reduceVars, strategyVars, pass_variables, call, mergeVars, requestVars>>

\* _write_call(func, *pass_variables)
WriteCall ==
    /\ pc = "idle"
    /\ \E f \in Callables, vs \in PassVariables :
        /\ func' = f
        /\ pass_variables' = vs
        /\ params' = _get_params(f)
        /\ call' = _write_call(f, vs)
    /\ pc' = "write_call"
    /\ UNCHANGED <<reduceVars, strategyVars, mergeVars, requestVars>>

\* _get_strategies(*funcs, pass_result_to_next_func=...)
GetStrategies ==
    /\ pc = "idle"
    /\ \E fs \in TuplesUpTo(MergeCallables, MaxFuncs), pipeline \in BOOLEAN,
          order \in KwargsOrders :
        /\ funcs' = fs
        /\ pass_result_to_next_func' = pipeline
        /\ kwargs_order' = order
        /\ given_strategies' = _get_strategies(fs, pipeline, order)
    /\ pc' = "get_strategies"
    /\ UNCHANGED <<reduceVars, strategyVars, callVars, requestVars>>

\* fuzz(func, except_=..., style=...)
Fuzz ==
    /\ pc = "idle"
    /\ \E t \in Things, e \in ExceptArgs, style \in Styles :
        /\ request' = [op |-> "fuzz", things |-> <<t>>, except_ |-> e, style |-> style]
        /\ result' = fuzz(t, e, style, BuildsOrder)
    /\ pc' = "fuzz"
    /\ UNCHANGED <<reduceVars, strategyVars, callVars, mergeVars, first_call>>

\* magic(*modules_or_functions, except_=..., style=...)
Magic ==
    /\ pc = "idle"
    /\ \E ts \in TuplesUpTo(MagicThings, MaxThings), e \in ExceptArgs, style \in Styles :
        /\ request' = [op |-> "magic", things |-> ts, except_ |-> e, style |-> style]
        /\ result' = magic(ts, e, style, BuildsOrder)
    /\ pc' = "magic"
    /\ UNCHANGED <<reduceVars, strategyVars, callVars, mergeVars, first_call>>

Next ==
    \/ Reduce
    \/ ReduceAgain
    \/ StrategyFor
    \/ GetParams
    \/ WriteCall
    \/ GetStrategies
    \/ Fuzz
    \/ Magic

Spec == Init /\ [][Next]_vars

(***************************************************************************)
(* Several calls in one process.  The module keeps no state between calls: *)
(* every name fuzz and magic assign is a local of the call.  A caller      *)
(* makes a first call, any call in between, and then the first call again  *)
(* with the same arguments, or with the arguments of magic permuted or     *)
(* one of them repeated.                                                   *)
(***************************************************************************)
RepeatThings ==
    {CallableThing(Divide), CallableThing(Compile), CallableThing(OperatorAdd), ModA}

RepeatExcepts == {ExceptArg(TRUE, <<>>), ExceptArg(TRUE, <<"OSError", "json.JSONDecodeError">>)}

RepeatRequests ==
    {[op |-> "fuzz", things |-> <<t>>, except_ |-> e, style |-> style] :
        t \in RepeatThings, e \in RepeatExcepts, style \in {"pytest", "unittest"}}
    \cup
    {[op |-> "magic", things |-> ts, except_ |-> e, style |-> style] :
        ts \in TuplesUpTo(RepeatThings, MaxThings), e \in RepeatExcepts,
        style \in {"pytest", "unittest"}}

\* the calls made between the first call and its repetition
BetweenRequests ==
    {[op |-> "magic", things |-> <<CallableThing(Sorted), CallableThing(Take)>>,
      except_ |-> ExceptArg(FALSE, <<"ValueError">>), style |-> "unittest"],
     [op |-> "fuzz", things |-> <<ObjectThing>>,
      except_ |-> ExceptArg(TRUE, <<>>), style |-> "pytest"]}

\* the same arguments; and for magic the arguments reversed, with the first
\* two exchanged, and with the first one given once more at the end
Variants(req) ==
    LET ts == req.things
    IN  {req} \cup
        (IF req.op = "magic" /\ Len(ts) >= 1
         THEN {[req EXCEPT !.things = [i \in 1..Len(ts) |-> ts[Len(ts) + 1 - i]]],
               [req EXCEPT !.things = [i \in 1..Len(ts) |->
                                        IF i = 1 /\ Len(ts) >= 2 THEN ts[2]
                                        ELSE IF i = 2 THEN ts[1] ELSE ts[i]]],
               [req EXCEPT !.things = Append(ts, ts[1])]}
         ELSE {})

\* one call of an entry point
Invoke ==
    /\ pc \in {"idle", "first", "between"}
    /\ \E req \in (IF pc = "idle" THEN RepeatRequests
                   ELSE IF pc = "first" THEN BetweenRequests
                   ELSE Variants(first_call.request)) :
        /\ request' = req
        /\ result' = IF req.op = "fuzz"
                     THEN fuzz(req.things[1], req.except_, req.style, BuildsOrder)
                     ELSE magic(req.things, req.except_, req.style, BuildsOrder)
        /\ first_call' = IF pc = "idle" THEN [request |-> req, result |-> result']
                       ELSE first_call
    /\ pc' = IF pc = "idle" THEN "first" ELSE IF pc = "first" THEN "between" ELSE "again"
    /\ UNCHANGED <<reduceVars, strategyVars, callVars, mergeVars>>

SpecRepeat == Init /\ [][Invoke]_vars

(***************************************************************************)
(* Properties of the exception set reducer.                                *)
(***************************************************************************)
StrictSubclass(a, b) == a # b /\ issubclass(a, b)

Dominated(i) == \E j \in 1..Len(except_) : StrictSubclass(except_[i], except_[j])

\* C1: after the reducer ran on a validated tuple, no survivor is a strict
\* subclass of another survivor, every supplied type that strictly subclasses
\* another supplied type is removed, and every maximal supplied type is kept.
C1_SurvivorsAreTheMaximalTypes ==
    pc = "reduced" =>
        /\ \A i, j \in 1..Len(uniques) : ~StrictSubclass(uniques[i], uniques[j])
        /\ \A i \in 1..Len(except_) : Dominated(i) => ~InSeq(except_[i], uniques)
        /\ \A i \in 1..Len(except_) : ~Dominated(i) => InSeq(except_[i], uniques)

\* C2: reducing the reducer's own output returns the same types, and
\* reducing two distinct types A, B with B a subclass of A returns exactly A,
\* in whichever order the two are supplied.
C2_ReductionIdempotent ==
    /\ pc = "rereduced" => uniques = prev_uniques
    /\ (pc \in {"reduced", "rereduced"} /\ Len(except_) = 2 /\ except_[1] # except_[2]) =>
            /\ issubclass(except_[2], except_[1]) => uniques = <<except_[1]>>
            /\ issubclass(except_[1], except_[2]) => uniques = <<except_[2]>>

\* Three supplied types reduce to two survivors, which are reduced again.
C2_Witness ==
    /\ pc = "rereduced"
    /\ Len(except_) = 3
    /\ Len(prev_uniques) = 2
    /\ \E i \in 1..3 : Dominated(i)

(***************************************************************************)
(* Properties of the strategy inferencer.                                  *)
(***************************************************************************)
Annotated == param.annotation # "empty"

Unconstrained == param.annotation = "empty" /\ param.default.kind = "empty"

StringRule == Contains(param.name, "string") /\ ~Contains(param.name, "as")

TableKeys == UNION {SeqSet(_GUESS_STRATEGIES_BY_NAME[e].names) :
                        e \in 1..Len(_GUESS_STRATEGIES_BY_NAME)}

\* C3: _strategy_for returns the result of the first rule that applies, in
\* the order annotation, boolean default, enum default, other default, name
\* guess, nothing(); the name is looked at only for a parameter with neither
\* an annotation nor a default.
C3_FirstApplicableRule ==
    pc = "strategy_for" =>
        /\ Annotated => strategy = Atom("infer")
        /\ (~Annotated /\ param.default.kind = "bool") =>
                strategy = Atom("booleans()")
        /\ (~Annotated /\ param.default.kind = "enum") =>
                strategy = Atom("sampled_from(" \o param.default.type \o ")")
        /\ (~Annotated /\ param.default.kind = "other") =>
                strategy = Atom("just(" \o param.default.value \o ")")
        /\ Unconstrained =>
                \/ StringRule /\ strategy = Atom("text()")
                \/ \E e \in 1..Len(_GUESS_STRATEGIES_BY_NAME) :
                        /\ InSeq(param.name, _GUESS_STRATEGIES_BY_NAME[e].names)
                        /\ strategy = _GUESS_STRATEGIES_BY_NAME[e].strategy
                \/ /\ ~StringRule
                   /\ param.name \notin TableKeys
                   /\ strategy = Atom("nothing()")
        /\ ~Unconstrained =>
                \A q \in StrategyParams :
                    (q.annotation = param.annotation /\ q.default = param.default)
                        => _strategy_for(q) = strategy

\* An annotated parameter with a boolean default and a name of the table.
C3_Witness ==
    /\ pc = "strategy_for"
    /\ Annotated
    /\ param.default.kind = "bool"
    /\ param.name = "index"
    /\ strategy = Atom("infer")

\* the table entries a name matches ignoring case or by substring
LooseMatches ==
    {e \in 1..Len(_GUESS_STRATEGIES_BY_NAME) :
        \E i \in 1..Len(_GUESS_STRATEGIES_BY_NAME[e].names) :
            LET k == _GUESS_STRATEGIES_BY_NAME[e].names[i]
            IN  \/ Lower(param.name) = k
                \/ Contains(param.name, k) /\ ~Contains(param.name, "as")}

\* C4 as stated: for a parameter with no annotation and no default, a name
\* that equals a table key ignoring case, or contains a key (or "string") as a
\* substring, gets the strategy of a key it matches.
C4_CaseInsensitiveSubstringMatch ==
    (pc = "strategy_for" /\ Unconstrained) =>
        /\ StringRule => strategy = Atom("text()")
        /\ (~StringRule /\ LooseMatches # {}) =>
                strategy \in {_GUESS_STRATEGIES_BY_NAME[e].strategy : e \in LooseMatches}

\* C4 as amended: the match is exact and case-sensitive. A name containing
\* "string" and not "as" gets text(); otherwise a name equal to a table key
\* gets that key's strategy; every other name gets nothing().
C4_ExactCaseSensitiveMatch ==
    (pc = "strategy_for" /\ Unconstrained) =>
        LET n == param.name
        IN  /\ StringRule => strategy = Atom("text()")
            /\ (~StringRule /\ n \in {"name", "filename", "fname"}) =>
                    strategy = Atom("text()")
            /\ n = "index" => strategy = Atom("integers(min_value=0)")
            /\ n \in {"real", "imag"} => strategy = Atom("floats()")
            /\ n \in {"function", "func", "f"} => strategy = Atom("functions()")
            /\ n = "iterable" =>
                    Repr(strategy) = "one_of(iterables(integers()), iterables(text()))"
            /\ (~StringRule /\ n \notin {"name", "filename", "fname", "index", "real",
                                         "imag", "function", "func", "f", "iterable"}) =>
                    strategy = Atom("nothing()")

\* A name that differs from a key only in case gets nothing().
C4_Witness ==
    /\ pc = "strategy_for"
    /\ Unconstrained
    /\ param.name = "Index"
    /\ strategy = Atom("nothing()")

(***************************************************************************)
(* Properties of the strategy merger.                                      *)
(***************************************************************************)
Merged == pc = "get_strategies" /\ given_strategies.status = "ok"

GivenKeys == Keys(given_strategies.value)

Names(ps) == [i \in 1..Len(ps) |-> ps[i].name]

\* the parameters of the i-th callable that take part in the merge
Remaining(i) ==
    LET ps == _get_params(funcs[i]).value
    IN  IF pass_result_to_next_func /\ i >= 2 THEN Tail(ps) ELSE ps

\* the strategy the i-th callable brings for its parameter k, a union in
\* its flattened form
Brought(i, k) ==
    LET q == Remaining(i)[CHOOSE j \in 1..Len(Remaining(i)) : Remaining(i)[j].name = k]
        v == IF q.annotation # "empty" THEN FromType(q.annotation) ELSE _strategy_for(q)
    IN  IF v.kind = "one_of" THEN one_of(element_strategies(v)) ELSE v

Count(x, seq) == Cardinality({i \in 1..Len(seq) : seq[i] = x})

Shared == {k \in SeqSet(Names(Remaining(1))) : k \in SeqSet(Names(Remaining(2)))}

\* C5: when two callables share a parameter name and their strategies differ
\* in text, the entry of that name is one flat union (no member is a union)
\* that holds the branches of each of the two strategies exactly once; when
\* the texts are equal the entry is that strategy itself.
C5_SharedNameIsFlatUnion ==
    (Merged /\ Len(funcs) = 2) =>
        \A k \in Shared :
            LET a == Brought(1, k)
                b == Brought(2, k)
                e == Get(given_strategies.value, k)
                both == element_strategies(a) \o element_strategies(b)
            IN  IF Repr(a) # Repr(b)
                THEN /\ e.kind = "one_of"
                     /\ \A i \in 1..Len(e.members) : e.members[i].kind # "one_of"
                     /\ Len(e.members) = Len(both)
                     /\ \A m \in SeqSet(both) : Count(m, e.members) = Count(m, both)
                ELSE e = b

\* C6: in pipeline mode the first non-variadic parameter of every callable
\* after the first is left out and every one of the first callable is kept;
\* otherwise none is left out; the keys of the result are exactly the names
\* of the parameters that remain.
C6_PipelineDropsFirstParameter ==
    Merged =>
        /\ SeqSet(GivenKeys) =
                UNION {SeqSet(Names(Remaining(i))) : i \in 1..Len(funcs)}
        /\ \A i \in 1..Len(funcs) :
                LET ps == _get_params(funcs[i]).value
                IN  IF pass_result_to_next_func /\ i >= 2
                    THEN /\ Len(ps) >= 1
                         /\ Names(Remaining(i)) = SubSeq(Names(ps), 2, Len(ps))
                    ELSE Names(Remaining(i)) = Names(ps)
        /\ Len(funcs) >= 1 =>
                SeqSet(Names(_get_params(funcs[1]).value)) \subseteq SeqSet(GivenKeys)
        /\ \A i, j \in 1..Len(GivenKeys) : i # j => GivenKeys[i] # GivenKeys[j]

\* Two callables in pipeline mode: the first parameter of the second one is
\* not among the keys.
C6_Witness ==
    /\ Merged
    /\ pass_result_to_next_func
    /\ Len(funcs) = 2
    /\ Len(_get_params(funcs[2]).value) >= 2
    /\ _get_params(funcs[2]).value[1].name \notin SeqSet(GivenKeys)
    /\ _get_params(funcs[2]).value[2].name \in SeqSet(GivenKeys)

\* C7: with exactly one callable the result is in that callable's declared
\* parameter order; with two or more it is in ascending order of the names,
\* whatever the order in which the entries were inserted.
C7_GivenSpecOrder ==
    Merged =>
        /\ Len(funcs) = 1 => GivenKeys = Names(_get_params(funcs[1]).value)
        /\ Len(funcs) >= 2 =>
                \A i \in 1..(Len(GivenKeys) - 1) : StrLess(GivenKeys[i], GivenKeys[i + 1])

\* Two callables whose entries are inserted in an order that is not sorted.
C7_Witness ==
    /\ Merged
    /\ funcs = <<Take, Divide>>
    /\ kwargs_order = "declared"
    /\ ~pass_result_to_next_func
    /\ GivenKeys = <<"a", "b", "index", "iterable">>

(***************************************************************************)
(* Properties of the call expression builder and the signature extractor.  *)
(***************************************************************************)
\* C8: given no more variable names than there are non-variadic parameters,
\* _write_call renders one argument per non-variadic parameter in declaration
\* order: the bound variable (or the parameter's own name when unbound or
\* bound to an empty marker) for a positional-only parameter, name=value
\* with the same fallback for any other.
C8_OneArgumentPerParameter ==
    (pc = "write_call" /\ params.status = "ok"
        /\ Len(pass_variables) <= Len(params.value)) =>
        /\ call.status = "ok"
        /\ Len(call.value.args) = Len(params.value)
        /\ \A i \in 1..Len(params.value) :
                LET q == params.value[i]
                    v == IF i <= Len(pass_variables) /\ pass_variables[i] # ""
                         THEN pass_variables[i] ELSE q.name
                IN  call.value.args[i] =
                        IF q.kind = "POSITIONAL_ONLY" THEN v ELSE q.name \o "=" \o v
        /\ call.value.text =
                _get_module(func).value \o "." \o _get_qualname(func)
                    \o "(" \o Join(call.value.args, ", ") \o ")"

\* sorted with its first parameter bound to an empty marker, the second to
\* a variable and the third unbound.
C8_Witness ==
    /\ pc = "write_call"
    /\ func = Sorted
    /\ pass_variables = <<"", "u">>
    /\ call.status = "ok"
    /\ call.value.text = "builtins.sorted(iterable, key=u, reverse=reverse)"

VariadicNames(f) ==
    {f.declared[j].name : j \in {j \in 1..Len(f.declared) : f.declared[j].kind \in VarKinds}}

\* C9: _get_params returns every parameter of the callable but the
\* variadic ones, in declaration order and with distinct names; variadic
\* parameters appear neither in the rendered call nor in the Given-Spec.
C9_NoVariadicParameters ==
    /\ (pc \in {"get_params", "write_call"} /\ params.status = "ok") =>
            LET ps == params.value
                Pos(q) == CHOOSE j \in 1..Len(func.declared) : func.declared[j] = q
            IN  /\ \A i \in 1..Len(ps) : ps[i].kind \notin VarKinds
                /\ \A i, j \in 1..Len(ps) : i # j => ps[i].name # ps[j].name
                /\ func.sig = "ok" =>
                        /\ \A i \in 1..Len(ps) : InSeq(ps[i], func.declared)
                        /\ \A j \in 1..Len(func.declared) :
                                func.declared[j].kind \notin VarKinds
                                    => InSeq(func.declared[j], ps)
                        /\ \A i, j \in 1..Len(ps) : i < j => Pos(ps[i]) < Pos(ps[j])
    /\ (pc = "write_call" /\ call.status = "ok") =>
            /\ Len(call.value.args) = Len(params.value)
            /\ \A n \in VariadicNames(func), i \in 1..Len(call.value.args) :
                    /\ call.value.args[i] # n
                    /\ ~StartsWith(call.value.args[i], n \o "=")
    /\ Merged =>
            \A i \in 1..Len(funcs) :
                \A n \in VariadicNames(funcs[i]) : n \notin SeqSet(GivenKeys)

\* A callable with *args and **kwargs between named parameters.
C9_Witness ==
    /\ pc = "write_call"
    /\ func = Fmt
    /\ Names(params.value) = <<"string", "index">>
    /\ call.status = "ok"
    /\ call.value.args = <<"string=u", "index=index">>

(***************************************************************************)
(* Properties of the entry points.                                         *)
(***************************************************************************)
Requested == pc \in {"fuzz", "magic"}

\* the callables passed directly
Direct ==
    {request.things[i].obj :
        i \in {i \in 1..Len(request.things) : request.things[i].kind = "callable"}}

\* the callables magic finds as candidate members of the modules passed
Candidates ==
    IF request.op # "magic" THEN {}
    ELSE UNION
        { {ModuleFuncs(request.things[i])[j].value.obj :
              j \in {j \in 1..Len(ModuleFuncs(request.things[i])) :
                        /\ ModuleFuncs(request.things[i])[j].status = "ok"
                        /\ ModuleFuncs(request.things[i])[j].value.kind = "callable"}} :
          i \in {i \in 1..Len(request.things) : request.things[i].kind = "module"} }

\* neither introspection nor the universal-function fallback gives parameters
Unextractable(f) == f.sig # "ok" /\ ~f.ufunc

UnitFuncs == {result.value[i].func : i \in 1..Len(result.value)}

\* C10 as stated: if the parameters of any callable of a request, passed
\* directly or found as a member of a module, cannot be extracted, the
\* request fails and returns no text.
C10_UnextractableFailsRequest ==
    (Requested /\ \E f \in Direct \cup Candidates : Unextractable(f)) =>
        result.status = "error"

\* C10 as amended: a callable passed directly whose parameters cannot be
\* extracted fails the request, and so does a module member whose
\* introspection raises anything but ValueError; a member whose
\* introspection raises ValueError is left out and the request goes on: the
\* units of a successful request are those of the callables passed directly
\* and of the members with a signature of at least one parameter.
C10_DirectCallablesFailRequest ==
    Requested =>
        /\ (\E f \in Direct : Unextractable(f)) => result.status = "error"
        /\ (\E f \in Candidates : f.sig \notin {"ok", "ValueError"}) =>
                result.status = "error"
        /\ result.status = "ok" =>
                UnitFuncs = Direct \cup
                    {f \in Candidates : f.sig = "ok" /\ Len(f.declared) > 0}

\* magic on a module with a member without signature: the member is left
\* out and a unit is written for another member.
C10_Witness ==
    /\ pc = "magic"
    /\ request.things = <<ModA>>
    /\ \E f \in Candidates : Unextractable(f)
    /\ result.status = "ok"
    /\ UnitFuncs = {Divide}

\* the arguments of a call of magic pass validation and every module given
\* is searched to the end
Discovered ==
    /\ pc = "magic"
    /\ \A i \in 1..Len(request.except_.items) : request.except_.items[i] \in ExcTypes
    /\ request.style \in {"pytest", "unittest"}
    /\ Len(request.things) > 0
    /\ \A i \in 1..Len(request.things) :
            LET t == request.things[i]
            IN  /\ t.kind \in {"callable", "module"}
                /\ t.kind = "module" =>
                        \A j \in 1..Len(ModuleFuncs(t)) : ModuleFuncs(t)[j].status = "ok"
    /\ \A f \in Candidates : f.sig \in {"ok", "ValueError"}

\* the expanded batch: the callables given directly and the members found
Expanded == Direct \cup {f \in Candidates : f.sig = "ok" /\ Len(f.declared) > 0}

DisplayName(f) == Replace(Replace(f.qualname, "<", "_"), ">", "_")

NameClash == \E f, g \in Expanded : f # g /\ DisplayName(f) = DisplayName(g)

InvalidArgument == Raised("InvalidArgument", <<>>)

BadExcept ==
    \E i \in 1..Len(request.except_.items) : request.except_.items[i] \notin ExcTypes

BadStyle == request.style \notin {"pytest", "unittest"}

\* the search of a module stops with an error
SearchFails(t) ==
    /\ t.kind = "module"
    /\ \E j \in 1..Len(ModuleFuncs(t)) :
            \/ ModuleFuncs(t)[j].status # "ok"
            \/ /\ ModuleFuncs(t)[j].value.kind = "callable"
               /\ ModuleFuncs(t)[j].value.obj.sig \notin {"ok", "ValueError"}

\* the same request with the single exception type given as a one-element tuple
AsTuple == ExceptArg(TRUE, <<request.except_.items[1]>>)

SameAsWithTuple ==
    (Requested /\ ~request.except_.is_tuple) =>
        result = IF request.op = "fuzz"
                 THEN fuzz(request.things[1], AsTuple, request.style, BuildsOrder)
                 ELSE magic(request.things, AsTuple, request.style, BuildsOrder)

\* C12 as stated: fuzz and magic raise InvalidArgument, with no strategy
\* inferred and no text written, when except_ is neither an exception type
\* nor a tuple of exception types, when style is neither "pytest" nor
\* "unittest", when the target of fuzz is not callable, or when an argument
\* of magic is neither callable nor a module; a single exception type is
\* treated as the one-element tuple holding it.
C12_InvalidInputsRaiseInvalidArgument ==
    /\ Requested =>
            /\ BadExcept => result = InvalidArgument
            /\ BadStyle => result = InvalidArgument
            /\ (request.op = "fuzz" /\ request.things[1].kind # "callable") =>
                    result = InvalidArgument
            /\ (request.op = "magic"
                    /\ \E i \in 1..Len(request.things) :
                            request.things[i].kind = "object") =>
                    result = InvalidArgument
    /\ SameAsWithTuple

\* C12 as amended: as stated, but an argument of magic that is neither
\* callable nor a module raises InvalidArgument when the search of every
\* module given before it went through without an error.
C12_InvalidArgumentUnlessSearchFailedBefore ==
    /\ Requested =>
            /\ BadExcept => result = InvalidArgument
            /\ BadStyle => result = InvalidArgument
            /\ (request.op = "fuzz" /\ request.things[1].kind # "callable") =>
                    result = InvalidArgument
            /\ (request.op = "magic"
                    /\ \E i \in 1..Len(request.things) :
                            /\ request.things[i].kind = "object"
                            /\ \A j \in 1..(i - 1) : ~SearchFails(request.things[j])) =>
                    result = InvalidArgument
    /\ SameAsWithTuple

\* magic on a module and then on an object that is neither callable nor a
\* module, with valid except_ and style.
C12_Witness ==
    /\ pc = "magic"
    /\ request.things = <<ModA, ObjectThing>>
    /\ ~BadExcept
    /\ ~BadStyle
    /\ ~request.except_.is_tuple
    /\ result = InvalidArgument

(***************************************************************************)
(* Properties of the test body composer and of the emitter.                *)
(***************************************************************************)
\* the validated exception tuple of the request
Validated == _check_except(request.except_).value

\* the composer has what it needs for f: a call expression, the strategies
\* of the parameters and the module
Composable(f) ==
    /\ _write_call(f, <<>>).status = "ok"
    /\ _get_strategies(<<f>>, FALSE, BuildsOrder).status = "ok"
    /\ _get_module(f).status = "ok"

\* the request passes validation and discovery, and the composer is called
\* for each of its callables
Composing ==
    /\ Requested
    /\ ~BadExcept
    /\ ~BadStyle
    /\ \/ /\ request.op = "fuzz"
          /\ request.things[1].kind = "callable"
          /\ Composable(request.things[1].obj)
       \/ /\ Discovered
          /\ ~NameClash
          /\ \A f \in Expanded : Composable(f)

\* the call expression the composer is given for f
CallText(f) == _write_call(f, <<>>).value.text

\* a try block around the call whose handler calls reject(), each of its
\* four lines ended by a newline
IsTryBlock(body, expr) ==
    /\ Len(body) = 5
    /\ body[5] = ""
    /\ body[1] = "try:"
    /\ body[2] = "    " \o expr
    /\ StartsWith(body[3], "except ") /\ EndsWith(body[3], ":")
    /\ body[4] = "    reject()"

\* C13: the composer wraps the call expression in a try/except block whose
\* handler calls reject() if and only if the validated exception tuple is
\* non-empty; with an empty tuple the call expression is the test body
\* unchanged, with no try block.
C13_SuppressIffExceptNonEmpty ==
    Composing =>
        /\ result.error \in {"", "InvalidInput"}
        /\ result.status = "ok" =>
            \A i \in 1..Len(result.value) :
                LET unit == result.value[i]
                IN  /\ Len(Validated) > 0 => IsTryBlock(unit.test_body, CallText(unit.func))
                    /\ Len(Validated) = 0 => unit.test_body = <<CallText(unit.func)>>

\* the except clause of the try block of a unit, and its lines in the text
\* returned
ClauseOf(unit) == unit.test_body[3]

ClauseLines == {i \in 1..Len(result.text) : StartsWith(Stripped(result.text[i]), "except ")}

\* C14: the except clause of the suppression wrapper renders a bare name when
\* the reduced exception set has exactly one survivor and a parenthesized,
\* comma-joined tuple when it has two or more; ValueError alone renders
\* "except ValueError:" and (Exception, OSError) renders "except Exception:".
\* The clause of each unit is a line of the text returned.
C14_ExceptClauseRendering ==
    (Requested /\ result.status = "ok" /\ Len(Validated) > 0) =>
        /\ \A i \in 1..Len(result.value) :
            LET unit == result.value[i]
                names == unit.exceptions
            IN  /\ Len(unit.uniques) = 1 => ClauseOf(unit) = "except " \o names[1] \o ":"
                /\ Len(unit.uniques) >= 2 =>
                        /\ Len(names) = Len(unit.uniques)
                        /\ ClauseOf(unit) = "except (" \o Join(names, ", ") \o "):"
                /\ \E j \in ClauseLines : Stripped(result.text[j]) = ClauseOf(unit)
        /\ Cardinality(ClauseLines) = Len(result.value)
        /\ Validated = <<"ValueError">> =>
                \A j \in ClauseLines : Stripped(result.text[j]) = "except ValueError:"
        /\ Validated = <<"Exception", "OSError">> =>
                \A j \in ClauseLines : Stripped(result.text[j]) = "except Exception:"
        /\ Validated = <<"OSError", "json.JSONDecodeError">> =>
                \A j \in ClauseLines :
                    Stripped(result.text[j]) = "except (OSError, json.JSONDecodeError):"

\* fuzz with two exception types of which neither is a subclass of the
\* other: the clause is the tuple of both.
C14_Witness ==
    /\ pc = "fuzz"
    /\ result.status = "ok"
    /\ Validated = <<"OSError", "json.JSONDecodeError">>
    /\ Len(result.value[1].uniques) = 2
    /\ ClauseOf(result.value[1]) = "except (OSError, json.JSONDecodeError):"

\* a standard global exception type: one the builtins module defines
IsBuiltinType(t) == ExcModule[t] = "builtins"

\* C15: every surviving exception type that is a builtin exception type
\* renders unqualified and adds no import; every other surviving type, a
\* user-defined type named like a builtin included, renders as
\* module.qualname and has its defining module in the import set and among
\* the import lines of the text.
C15_BuiltinsBareOthersQualified ==
    (Requested /\ result.status = "ok" /\ Len(Validated) > 0) =>
        \A i \in 1..Len(result.value) :
            LET unit == result.value[i]
            IN  \A k \in 1..Len(unit.uniques) :
                    LET t == unit.uniques[k]
                    IN  IF IsBuiltinType(t)
                        THEN /\ unit.exceptions[k] = ExcQualname[t]
                             /\ unit.imports \subseteq
                                    {unit.module, "unittest"} \cup
                                    {ExcModule[unit.uniques[j]] :
                                        j \in 1..Len(unit.uniques) \ {k}}
                        ELSE /\ unit.exceptions[k] = ExcModule[t] \o "." \o ExcQualname[t]
                             /\ ExcModule[t] \in unit.imports
                             /\ \E j \in 1..Len(result.text) :
                                    result.text[j] = "import " \o ExcModule[t]

\* the modules named by the import lines of the text returned, in the order
\* of the lines
ImportedModules ==
    LET IsImportLine(line) == StartsWith(line, "import ")
        lines == SelectSeq(result.text, IsImportLine)
    IN  [i \in 1..Len(lines) |-> SubSeq(lines[i], Len("import ") + 1, Len(lines[i]))]

\* the modules the claim collects: those of the callables, those of the
\* surviving exception types that are no builtin types, and unittest in the
\* unittest style
CollectedModules ==
    UNION { {result.value[i].module}
                \cup {ExcModule[t] : t \in {t \in SeqSet(result.value[i].uniques) :
                                                ~IsBuiltinType(t)}}
                \cup (IF request.style = "unittest" THEN {"unittest"} ELSE {}) :
            i \in 1..Len(result.value) }

\* C16: the text has exactly one import line for each collected module other
\* than builtins and __main__, in ascending order, and none for builtins or
\* __main__.
C16_OneImportLinePerModuleSorted ==
    (Requested /\ result.status = "ok") =>
        /\ SeqSet(ImportedModules) = CollectedModules \ {"builtins", "__main__"}
        /\ Len(ImportedModules) = Cardinality(SeqSet(ImportedModules))
        /\ \A i \in 1..(Len(ImportedModules) - 1) :
                StrLess(ImportedModules[i], ImportedModules[i + 1])

\* the entries of the Given-Spec of the units, as pairs of the index of the
\* unit and the index of the entry
GivenEntries ==
    UNION { {<<i, k>> : k \in 1..Len(result.value[i].given)} : i \in 1..Len(result.value) }

\* the entries that are the sentinel, and those written as the sentinel
Sentinels == {e \in GivenEntries : result.value[e[1]].given[e[2]].v = Atom("nothing()")}

WrittenAsSentinel ==
    {e \in GivenEntries : _valid_syntax_repr(result.value[e[1]].given[e[2]].v) = "nothing()"}

HasLine(line) == \E j \in 1..Len(result.text) : result.text[j] = line

Singular == HasLine("# TODO: replace st.nothing() with an appropriate strategy")

Plural == HasLine("# TODO: replace st.nothing() with appropriate strategies")

\* an error of a request that is composing is the reducer's or the
\* formatter's, and the formatter rejects a module name only
NeverFailsForStrategy ==
    (Composing /\ result.status = "error") =>
        \/ result.error = "IndexError" /\ ReduceExceptions(Validated) = <<>>
        \/ /\ result.error = "InvalidInput"
           /\ \E f \in Direct \cup Expanded : InvalidImport("import " \o _get_module(f).value)

\* C17 as stated: the text carries no advisory when no Given-Spec entry of
\* any unit is the nothing() sentinel, the singular advisory when exactly one
\* entry is, and the plural advisory when two or more are; a strategy that
\* cannot be resolved never makes the request fail.
C17_AdvisoryCountsSentinels ==
    /\ (Requested /\ result.status = "ok") =>
            /\ Cardinality(Sentinels) = 0 => ~Singular /\ ~Plural
            /\ Cardinality(Sentinels) = 1 => Singular /\ ~Plural
            /\ Cardinality(Sentinels) >= 2 => Plural /\ ~Singular
    /\ NeverFailsForStrategy

\* C17 as amended: the count is that of the entries written as nothing() in
\* the decorators: the sentinel, and any strategy whose repr is no valid
\* source text.
C17_AdvisoryCountsWrittenSentinels ==
    /\ (Requested /\ result.status = "ok") =>
            /\ Cardinality(WrittenAsSentinel) = 0 => ~Singular /\ ~Plural
            /\ Cardinality(WrittenAsSentinel) = 1 => Singular /\ ~Plural
            /\ Cardinality(WrittenAsSentinel) >= 2 => Plural /\ ~Singular
    /\ NeverFailsForStrategy

\* fuzz on a callable whose only parameter has a default without a literal
\* form: no entry is the sentinel, one is written as the sentinel, and the
\* advisory is in the singular.
C17_Witness ==
    /\ pc = "fuzz"
    /\ result.status = "ok"
    /\ Cardinality(Sentinels) = 0
    /\ Cardinality(WrittenAsSentinel) = 1
    /\ Singular
    /\ ~Plural

\* a unit is composed for every callable of the request, and the source
\* assembled from the units imports a module whose name is no dotted name:
\* the formatter rejects it
FormatterRejects ==
    /\ Composing
    /\ Len(Validated) > 0 => ReduceExceptions(Validated) # <<>>
    /\ \E f \in Expanded : InvalidImport("import " \o _get_module(f).value)

\* C18: when the formatter rejects the assembled source, fuzz and magic end
\* with the formatter's error, which is not InvalidArgument, and return no
\* text, formatted or not.
C18_FormatterFailurePropagates ==
    FormatterRejects =>
        /\ result.status = "error"
        /\ result.error = "InvalidInput"
        /\ result.error # "InvalidArgument"
        /\ "text" \notin DOMAIN result

\* magic on two callables, one of a module whose name has a dash.
C18_Witness ==
    /\ pc = "magic"
    /\ request.things = <<CallableThing(Divide), CallableThing(Dashed)>>
    /\ request.style = "unittest"
    /\ FormatterRejects
    /\ result = Raised("InvalidInput", <<>>)

SameNameArg(q) == IF q.kind = "POSITIONAL_ONLY" THEN q.name ELSE q.name \o "=" \o q.name

\* the call of f with every non-variadic parameter bound to the variable of
\* its name, as the test body has it and as the text has it
SameNameCall(f) ==
    LET ps == _get_params(f).value
    IN  _get_module(f).value \o "." \o _get_qualname(f) \o "("
            \o Join([i \in 1..Len(ps) |-> SameNameArg(ps[i])], ", ") \o ")"

DisplayedCall(f) == StrReplace(StrReplace(SameNameCall(f), "builtins.", ""), "__main__.", "")

FuzzNoExcept ==
    /\ pc = "fuzz"
    /\ request.except_ = ExceptArg(TRUE, <<>>)
    /\ result.status = "ok"

ArgumentStarts(s) ==
    LET Open(t) == StrCount(t, "(") + StrCount(t, "[")
        Close(t) == StrCount(t, ")") + StrCount(t, "]")
    IN  (IF s = "" THEN {} ELSE {1}) \cup
        {p + 2 : p \in {p \in 1..(Len(s) - 1) :
                            /\ SubSeq(s, p, p + 1) = ", "
                            /\ Open(SubSeq(s, 1, p)) = Close(SubSeq(s, 1, p))}}

RECURSIVE KeywordsFrom(_, _)
\* the keyword names of the arguments k=v, ... written in s, in their order:
\* the text between the start of each argument and its "="
KeywordsFrom(s, starts) ==
    IF starts = {} THEN <<>>
    ELSE LET a == CHOOSE x \in starts : \A y \in starts : x <= y
             rest == SubSeq(s, a, Len(s))
         IN  <<SubSeq(rest, 1, Find(rest, "=") - 1)>> \o KeywordsFrom(s, starts \ {a})

\* the lines of the text that follow one another as decorator and def of the
\* test of the callable named name, with the indentation given
TestAt(j, pre, name, parameters) ==
    /\ j < Len(result.text)
    /\ StartsWith(result.text[j], pre \o "@given(")
    /\ EndsWith(result.text[j], ")")
    /\ result.text[j + 1] =
            pre \o "def test_fuzz_" \o StrReplace(name, ".", "_")
                \o "(" \o Join(parameters, ", ") \o "):"

\* the keyword names of the decorator at line j
DecoratorKeywords(j) ==
    LET line == Stripped(result.text[j])
    IN  LET arguments == SubSeq(line, Len("@given(") + 1, Len(line) - 1)
        IN  KeywordsFrom(arguments, ArgumentStarts(arguments))

ClassLine(name) ==
    "class TestFuzz" \o Title(StrReplace(name, ".", "")) \o "(unittest.TestCase):"

\* C21: in the unittest style the parameter list of each test is self
\* followed by the Given-Spec keys in their order, the test is nested in a
\* class Test<Kind><title-cased callable name>(unittest.TestCase) and
\* unittest is imported; in the pytest style the parameter list is the
\* Given-Spec keys, there is no class and unittest is not added.  In both
\* styles the keyword names of @given are the parameters other than the
\* receiver, in the same order.
C21_StyleShapesTheUnit ==
    (Requested /\ result.status = "ok") =>
        /\ \A i \in 1..Len(result.value) :
            LET unit == result.value[i]
                keys == Keys(unit.given)
            IN  IF request.style = "unittest"
                THEN /\ unit.argnames = <<"self">> \o keys
                     /\ "unittest" \in unit.imports
                     /\ HasLine("import unittest")
                     /\ \E j \in 2..Len(result.text) :
                            /\ result.text[j - 1] = ClassLine(unit.name)
                            /\ TestAt(j, "    ", unit.name, <<"self">> \o keys)
                            /\ DecoratorKeywords(j) = keys
                ELSE /\ unit.argnames = keys
                     /\ "unittest" \in unit.imports => unit.module = "unittest"
                     /\ ~HasLine("import unittest")
                     /\ \E j \in 1..Len(result.text) :
                            /\ TestAt(j, "", unit.name, keys)
                            /\ DecoratorKeywords(j) = keys
        /\ request.style = "pytest" =>
                \A j \in 1..Len(result.text) : ~StartsWith(Stripped(result.text[j]), "class ")
        /\ (request.style = "unittest" /\ request.op = "fuzz") =>
                /\ request.things[1].obj = Compile =>
                        HasLine("class TestFuzzCompile(unittest.TestCase):")
                /\ request.things[1].obj = Fmt =>
                        HasLine("class TestFuzzOuter_Locals_Fmt(unittest.TestCase):")

\* fuzz(re.compile, style="unittest").
C21_Witness ==
    /\ pc = "fuzz"
    /\ request.style = "unittest"
    /\ request.things = <<CallableThing(Compile)>>
    /\ result.status = "ok"
    /\ HasLine("class TestFuzzCompile(unittest.TestCase):")
    /\ HasLine("    def test_fuzz_compile(self, pattern, flags):")
    /\ result.value[1].argnames = <<"self", "pattern", "flags">>

(***************************************************************************)
(* Properties of the signature extractor on universal functions.           *)
(***************************************************************************)
\* introspection fails for a callable with the shape of a universal function
Synthesized == pc = "get_params" /\ func.sig # "ok" /\ func.ufunc

\* C22: when introspection fails for a callable with the shape of a
\* universal function, _get_params returns exactly nin parameters, all
\* positional-only, with the distinct names a, b, c, ... in order, whatever
\* the input count.
C22_SynthesizedParametersEqualNin ==
    Synthesized =>
        /\ params.status = "ok"
        /\ Len(params.value) = func.nin
        /\ \A i \in 1..Len(params.value) :
                /\ params.value[i].kind = "POSITIONAL_ONLY"
                /\ params.value[i].name = SubSeq(LowerCase, i, i)
        /\ \A i, j \in 1..Len(params.value) :
                i # j => params.value[i].name # params.value[j].name

(***************************************************************************)
(* Properties of several calls.                                            *)
(***************************************************************************)
\* C23: a call repeated with the same arguments after any call in between
\* returns the text of the first call, and so does a call of magic with the
\* arguments permuted or with one of them given more than once; an error of
\* the first call is the error of the repetition.
C23_SameInputsSameText ==
    pc = "again" =>
        /\ result.status = first_call.result.status
        /\ first_call.result.status = "ok" => result.text = first_call.result.text
        /\ first_call.result.status = "error" => result.error = first_call.result.error

\* magic on two callables, another call, then magic on the two callables in
\* the other order: the same text with two tests.
C23_Witness ==
    /\ pc = "again"
    /\ first_call.request.op = "magic"
    /\ first_call.request.things = <<CallableThing(Divide), CallableThing(Compile)>>
    /\ request.things = <<CallableThing(Compile), CallableThing(Divide)>>
    /\ first_call.result.status = "ok"
    /\ Len(first_call.result.value) = 2
    /\ result.text = first_call.result.text

(***************************************************************************)
(* Properties of the reducer on tuples that repeat a type.                 *)
(***************************************************************************)
\* the supplied tuple lists no type twice
NoTypeTwice(exc) == \A i, j \in 1..Len(exc) : exc[i] = exc[j] => i = j

\* every supplied type is a survivor or a subclass of one
Covered == \A i \in 1..Len(except_) : \E j \in 1..Len(uniques) : issubclass(except_[i], uniques[j])

\* C24: for every non-empty validated tuple, one that lists a type more than
\* once included, the reducer leaves at least one survivor and every
\* supplied type is a subclass of, or equal to, some survivor; and no call
\* of fuzz or magic fails while it renders the except clause.
C24_ReducerLeavesACover ==
    /\ pc = "reduced" => Len(uniques) > 0 /\ Covered
    /\ pc \in {"fuzz", "magic"} => result.error # "IndexError"

\* C24 on the tuples that list no type twice
C24_CoverWithoutRepetition ==
    /\ (pc = "reduced" /\ NoTypeTwice(except_)) => Len(uniques) > 0 /\ Covered
    /\ (pc \in {"fuzz", "magic"} /\ NoTypeTwice(Validated)) => result.error # "IndexError"

(***************************************************************************)
(* Properties of the merge of three callables.                             *)
(***************************************************************************)
\* the callables whose remaining parameters have the name k
Bringing(k) == {i \in 1..Len(funcs) : k \in SeqSet(Names(Remaining(i)))}

\* the branches of an entry as they are written: those of a union, or the
\* strategy itself
Branches(e) == IF e.kind = "one_of" THEN e.members ELSE <<e>>

\* C25: after the merge of three or more callables that share a parameter
\* name, the entry of that name is a flattened union (no branch is a union)
\* in which no two branches have the same text; and when the first and the
\* third callable bring the same strategy A and the second a different one
\* B, the branches are those of the merge of A and B.
C25_SharedByThreeHasEachTextOnce ==
    (Merged /\ Len(funcs) >= 3) =>
        \A k \in SeqSet(GivenKeys) :
            Cardinality(Bringing(k)) >= 3 =>
                LET bs == Branches(Get(given_strategies.value, k))
                    a == Brought(1, k)
                    b == Brought(2, k)
                IN  /\ \A i \in 1..Len(bs) : bs[i].kind # "one_of"
                    /\ \A i, j \in 1..Len(bs) : Repr(bs[i]) = Repr(bs[j]) => i = j
                    /\ (Repr(a) # Repr(b) /\ Brought(3, k) = a) =>
                            SeqSet(bs) = SeqSet(element_strategies(a))
                                            \cup SeqSet(element_strategies(b))

\* C25 on the merges in which every callable brings the same strategy
C25_SameStrategyThrice ==
    (Merged /\ Len(funcs) >= 3) =>
        \A k \in SeqSet(GivenKeys) :
            (Cardinality(Bringing(k)) >= 3
                /\ \A i \in Bringing(k) : Repr(Brought(i, k)) = Repr(Brought(1, k))) =>
                Get(given_strategies.value, k) = Brought(1, k)

(***************************************************************************)
(* Properties of the import of reject.                                     *)
(***************************************************************************)
\* the unit wraps its call in the try block
Wrapped(unit) == IsTryBlock(unit.test_body, CallText(unit.func))

RejectImported == HasLine("from hypothesis import given, reject, strategies as st")

RejectCalled == \E j \in 1..Len(result.text) : Stripped(result.text[j]) = "reject()"

\* C26: in the text returned, in either style and for any number of units,
\* reject is imported from hypothesis if and only if some unit has the
\* suppression wrapper; the units have it exactly when the validated tuple
\* is non-empty; and reject() is called in the text exactly when it is
\* imported.  Without it the import line names given and strategies only.
C26_RejectImportedIffWrapped ==
    (pc \in {"fuzz", "magic"} /\ result.status = "ok") =>
        /\ RejectImported <=> \E i \in 1..Len(result.value) : Wrapped(result.value[i])
        /\ \A i \in 1..Len(result.value) : Wrapped(result.value[i]) <=> Len(Validated) > 0
        /\ RejectImported <=> RejectCalled
        /\ RejectImported <=> ~HasLine("from hypothesis import given, strategies as st")

\* magic writes two wrapped tests as methods of classes and imports reject.
C26_Witness ==
    /\ pc = "magic"
    /\ result.status = "ok"
    /\ request.style = "unittest"
    /\ Len(result.value) >= 2
    /\ \A i \in 1..Len(result.value) : Wrapped(result.value[i])
    /\ RejectImported
    /\ RejectCalled

\* fuzz with the empty tuple: no wrapper and no import of reject
C26_WitnessWithout ==
    /\ pc = "fuzz"
    /\ result.status = "ok"
    /\ Len(Validated) = 0
    /\ ~RejectImported
    /\ ~RejectCalled

====
